---- MODULE Spec2Model ----
(***************************************************************************)
(* The Castr API companion module: the stream Directory rebuilt by         *)
(* pollAPI, the derived views it publishes, the reference resolver and the *)
(* enable/disable command handlers, together with the remote service and   *)
(* the requests in flight.                                                 *)
(*                                                                         *)
(* A JavaScript string is a sequence of one-character strings, so that     *)
(* concatenation, splitting, sanitising and comparing are computed.        *)
(***************************************************************************)
EXTENDS Integers, Sequences, FiniteSets, TLC

(***************************************************************************)
(* Bounds of the model.                                                    *)
(***************************************************************************)
MaxDocs == 2
MaxPlatforms == 2
MaxInFlight == 2
MaxCommands == 1
MaxToggles == 2

(***************************************************************************)
(* Strings.                                                                *)
(***************************************************************************)
Lower == {"a","b","c","d","e","f","g","h","i","j","k","l","m",
          "n","o","p","q","r","s","t","u","v","w","x","y","z"}
Upper == {"A","B","C","D","E","F","G","H","I","J","K","L","M",
          "N","O","P","Q","R","S","T","U","V","W","X","Y","Z"}
Digits == {"0","1","2","3","4","5","6","7","8","9"}

\* the character class [a-zA-Z0-9_-] of addVar
SafeChars == Lower \cup Upper \cup Digits \cup {"_", "-"}

Digit(i) == <<"0","1","2","3","4","5","6","7","8","9">>[i + 1]

\* the literal pieces of the template strings of pollAPI
K_stream == <<"s","t","r","e","a","m","_">>
K_name == <<"_","n","a","m","e">>
K_enabled == <<"_","e","n","a","b","l","e","d">>
K_status == <<"_","s","t","a","t","u","s">>
K_ingest_server == <<"_","i","n","g","e","s","t","_","s","e","r","v","e","r">>
K_ingest_key == <<"_","i","n","g","e","s","t","_","k","e","y">>
K_id == <<"_","i","d">>
K_platform == <<"_","p","l","a","t","f","o","r","m","_">>

N_Stream == <<"S","t","r","e","a","m"," ","'">>
N_Name == <<"'"," ","N","a","m","e">>
N_Enabled == <<"'"," ","E","n","a","b","l","e","d">>
N_Status == <<"'"," ","S","t","a","t","u","s">>
N_ingest_server == <<"'"," ","i","n","g","e","s","t"," ","s","e","r","v","e","r">>
N_ingest_key == <<"'"," ","i","n","g","e","s","t"," ","k","e","y">>
N_ID == <<"'"," ","I","D">>
N_platform == <<"'",","," ","p","l","a","t","f","o","r","m"," ","'">>
N_status == <<"'"," ","s","t","a","t","u","s">>
N_enabled == <<"'"," ","e","n","a","b","l","e","d">>

S_undefined == <<"u","n","d","e","f","i","n","e","d">>
S_online == <<"o","n","l","i","n","e">>
S_live_streams == <<"l","i","v","e","_","s","t","r","e","a","m","s">>
S_platforms == <<"/","p","l","a","t","f","o","r","m","s","/">>
S_slash == <<"/">>

\* ' :: ' and '*ALL*'
Separator == <<" ", ":", ":", " ">>
AllMarker == <<"*", "A", "L", "L", "*">>

\* Sanitize with the fault of a pattern without the g flag: only the first
\* character outside the set is replaced
SanitizeFirstOnly(s) ==
    [i \in 1..Len(s) |->
        IF s[i] \notin SafeChars /\ \A k \in 1..(i - 1) : s[k] \in SafeChars
        THEN "_" ELSE s[i]]

\* id.replace(/[^a-zA-Z0-9_-]/g, '_')
Sanitize(s) == [i \in 1..Len(s) |-> IF s[i] \in SafeChars THEN s[i] ELSE "_"]

(***************************************************************************)
(* String.prototype.localeCompare.  Whitespace sorts before punctuation,   *)
(* punctuation before digits, digits before letters, and a lower-case      *)
(* letter before its upper-case form; the strings of the model never       *)
(* differ by case alone, so the comparison is the lexicographic one over   *)
(* this order of the characters.                                           *)
(***************************************************************************)
Collation ==
    <<" ", "_", "-", ",", ":", "'", "/", "*",
      "0","1","2","3","4","5","6","7","8","9",
      "a","A","b","B","c","C","d","D","e","E","f","F","g","G","h","H","i","I",
      "j","J","k","K","l","L","m","M","n","N","o","O","p","P","q","Q","r","R",
      "s","S","t","T","u","U","v","V","w","W","x","X","y","Y","z","Z">>

Rank(c) == CHOOSE i \in 1..Len(Collation) : Collation[i] = c

RECURSIVE CompareFrom(_, _, _)
CompareFrom(s, t, i) ==
    IF i > Len(s) /\ i > Len(t) THEN 0
    ELSE IF i > Len(s) THEN -1
    ELSE IF i > Len(t) THEN 1
    ELSE IF Rank(s[i]) < Rank(t[i]) THEN -1
    ELSE IF Rank(s[i]) > Rank(t[i]) THEN 1
    ELSE CompareFrom(s, t, i + 1)

localeCompare(s, t) == CompareFrom(s, t, 1)

\* String.prototype.split(sep): the pieces between the occurrences of sep
StartsWithAt(s, sep, i) ==
    /\ i + Len(sep) - 1 <= Len(s)
    /\ \A k \in 1..Len(sep) : s[i + k - 1] = sep[k]

RECURSIVE SplitFrom(_, _, _, _)
SplitFrom(s, sep, i, piece) ==
    IF i > Len(s) THEN <<piece>>
    ELSE IF StartsWithAt(s, sep, i)
         THEN <<piece>> \o SplitFrom(s, sep, i + Len(sep), <<>>)
         ELSE SplitFrom(s, sep, i + 1, Append(piece, s[i]))

split(s, sep) == SplitFrom(s, sep, 1, <<>>)

(***************************************************************************)
(* JavaScript values: a value that may be absent (undefined, null) is a    *)
(* sequence of at most one element; a boolean-or-string value carries its  *)
(* type.                                                                   *)
(***************************************************************************)
None == <<>>
Some(x) == <<x>>

JBool(b) == [t |-> "boolean", b |-> b, s |-> <<>>]
JStr(s) == [t |-> "string", b |-> FALSE, s |-> s]
JUndefined == [t |-> "undefined", b |-> FALSE, s |-> <<>>]

Truthy(v) ==
    \/ v.t = "boolean" /\ v.b
    \/ v.t = "string" /\ v.s # <<>>

\* v || d
OrElse(v, d) == IF Truthy(v) THEN v ELSE d

(***************************************************************************)
(* Map: the entries in insertion order; set() on a present key replaces    *)
(* the value in place.                                                     *)
(***************************************************************************)
MapHas(m, k) == \E i \in 1..Len(m) : m[i].key = k
MapGet(m, k) == m[CHOOSE i \in 1..Len(m) : m[i].key = k].value
MapSet(m, k, v) ==
    IF MapHas(m, k)
    THEN [i \in 1..Len(m) |-> IF m[i].key = k THEN [key |-> k, value |-> v] ELSE m[i]]
    ELSE Append(m, [key |-> k, value |-> v])
MapKeys(m) == [i \in 1..Len(m) |-> m[i].key]

\* obj[k] = v on a plain object
Put(f, k, v) == [x \in DOMAIN f \cup {k} |-> IF x = k THEN v ELSE f[x]]
EmptyObject == [x \in {} |-> JUndefined]

(***************************************************************************)
(* The records of the remote API (GET live_streams -> { docs: [...] }).    *)
(***************************************************************************)
StreamId(i) == <<"s", Digit(i)>>
PlatformId(i, j) == <<"p", Digit(i), Digit(j)>>

Ingest == [server |-> JStr(<<"i">>), key |-> JStr(<<"k">>)]

Platform(i, j, name, enabled) ==
    [_id |-> PlatformId(i, j), name |-> name, enabled |-> JBool(enabled),
     broadcasting_status |-> JUndefined]

Stream(i, name, enabled, ingest, platforms) ==
    [_id |-> StreamId(i), name |-> name, enabled |-> JBool(enabled),
     broadcasting_status |-> JUndefined, ingest |-> ingest, platforms |-> platforms]

(***************************************************************************)
(* pollAPI: the handler of a successful response.  A run of the handler    *)
(* holds the Directory it is filling, its two locals, what it logged and   *)
(* whether an exception is propagating.                                    *)
(***************************************************************************)
NewRun ==
    [streams |-> <<>>, streamsByName |-> <<>>, platforms |-> <<>>,
     platformsDropdown |-> <<>>, variableDefinitions |-> <<>>,
     variableValues |-> EmptyObject, log |-> {}, thrown |-> FALSE]

\* addVar with the fault of a definition pushed before the id is sanitized
addVarRawDefinition(run, id, name, value) ==
    [run EXCEPT !.variableDefinitions = Append(@, [variableId |-> id, name |-> name]),
                !.variableValues = Put(@, Sanitize(id), value)]

addVar(run, id, name, value) ==
    [run EXCEPT !.variableDefinitions =
                    Append(@, [variableId |-> Sanitize(id), name |-> name]),
                !.variableValues = Put(@, Sanitize(id), value)]

Throw(run) == [run EXCEPT !.thrown = TRUE]

\* Array.prototype.sort((a, b) => a.id.localeCompare(b.id)), a stable sort
RECURSIVE SortById(_)
SortById(list) ==
    IF Len(list) <= 1 THEN list
    ELSE LET front == SortById(SubSeq(list, 1, Len(list) - 1))
             x == list[Len(list)]
             k == Cardinality({i \in 1..Len(front) :
                                  localeCompare(front[i].id, x.id) <= 0})
         IN SubSeq(front, 1, k) \o <<x>> \o SubSeq(front, k + 1, Len(front))

DropdownEntry(ref) == [id |-> ref, label |-> ref]

\* for (const platform of stream.platforms) { ... }
RECURSIVE PlatformLoop(_, _, _, _)
PlatformLoop(run, st, list, j) ==
    IF j > Len(list) THEN run
    ELSE IF list[j] = None THEN Throw(run)
    ELSE LET platform == list[j][1]
             key == K_stream \o st.name \o K_platform \o platform.name
             label == N_Stream \o st.name \o N_platform \o platform.name
             r1 == addVar(run, key \o K_status, label \o N_status,
                          OrElse(platform.broadcasting_status, JStr(S_undefined)))
             r2 == addVar(r1, key \o K_enabled, label \o N_enabled,
                          OrElse(platform.enabled, JBool(FALSE)))
             platformId == st.name \o Separator \o platform.name
             r3 == [r2 EXCEPT
                      !.platformsDropdown = Append(@, DropdownEntry(platformId)),
                      !.platforms = Put(@, platformId,
                                        [stream |-> st._id, platform |-> platform._id])]
         IN PlatformLoop(r3, st, list, j + 1)

\* the body of the try block for one stream
ParseStream(run, st) ==
    LET byId == K_stream \o st._id
        byName == K_stream \o st.name
        idLabel == N_Stream \o st._id
        nameLabel == N_Stream \o st.name
        enabled == OrElse(st.enabled, JBool(FALSE))
        status == OrElse(st.broadcasting_status, JStr(S_undefined))
        r1 == addVar(run, byId \o K_name, idLabel \o N_Name, JStr(st.name))
        r2 == addVar(r1, byId \o K_enabled, idLabel \o N_Enabled, enabled)
        r3 == addVar(r2, byId \o K_status, idLabel \o N_Status, status)
    IN IF st.ingest = None THEN Throw(r3)
       ELSE
       LET server == OrElse(st.ingest[1].server, JStr(<<>>))
           key == OrElse(st.ingest[1].key, JStr(<<>>))
           r4 == addVar(r3, byId \o K_ingest_server, idLabel \o N_ingest_server, server)
           r5 == addVar(r4, byId \o K_ingest_key, idLabel \o N_ingest_key, key)
           r6 == addVar(r5, byName \o K_id, nameLabel \o N_ID, JStr(st._id))
           r7 == addVar(r6, byName \o K_enabled, nameLabel \o N_Enabled, enabled)
           r8 == addVar(r7, byName \o K_status, nameLabel \o N_Status, status)
           r9 == addVar(r8, byName \o K_ingest_server, nameLabel \o N_ingest_server, server)
           r10 == addVar(r9, byName \o K_ingest_key, nameLabel \o N_ingest_key, key)
           r11 == [r10 EXCEPT !.platformsDropdown =
                                  Append(@, DropdownEntry(st.name \o Separator \o AllMarker))]
           r12 == IF st.platforms # None
                  THEN PlatformLoop(r11, st, st.platforms[1], 1)
                  ELSE r11
       IN IF r12.thrown THEN r12
          ELSE [r12 EXCEPT !.platformsDropdown = SortById(@)]

\* catch (err) { this.log('error', `failed to parse stream data: ${err}`) }
CatchParse(run) ==
    IF run.thrown
    THEN [run EXCEPT !.thrown = FALSE, !.log = @ \cup {"failed to parse stream data"}]
    ELSE run

\* StreamLoop with the fault of a by-name mapping that keeps the first record
\* of a name: if (!this.streamsByName.has(stream.name)) set(...)
RECURSIVE StreamLoopFirstWins(_, _, _)
StreamLoopFirstWins(run, docs, i) ==
    IF i > Len(docs) THEN run
    ELSE IF docs[i] = None THEN Throw(run)
    ELSE LET stream == docs[i][1]
             r1 == [run EXCEPT !.streams = MapSet(@, stream._id, stream),
                               !.streamsByName = IF MapHas(@, stream.name) THEN @
                                                 ELSE MapSet(@, stream.name, stream)]
         IN StreamLoopFirstWins(CatchParse(ParseStream(r1, stream)), docs, i + 1)

\* StreamLoop with the by-name entry made at the end of the try block, so
\* that a record that fails to parse is entered under its id only
RECURSIVE StreamLoopNameInTry(_, _, _)
StreamLoopNameInTry(run, docs, i) ==
    IF i > Len(docs) THEN run
    ELSE IF docs[i] = None THEN Throw(run)
    ELSE LET stream == docs[i][1]
             r1 == [run EXCEPT !.streams = MapSet(@, stream._id, stream)]
             r2 == ParseStream(r1, stream)
             r3 == IF r2.thrown THEN r2
                   ELSE [r2 EXCEPT !.streamsByName = MapSet(@, stream.name, stream)]
         IN StreamLoopNameInTry(CatchParse(r3), docs, i + 1)

\* StreamLoop with a loop that ends at a null record without an exception
RECURSIVE StreamLoopEndsQuietly(_, _, _)
StreamLoopEndsQuietly(run, docs, i) ==
    IF i > Len(docs) THEN run
    ELSE IF docs[i] = None THEN run
    ELSE LET stream == docs[i][1]
             r1 == [run EXCEPT !.streams = MapSet(@, stream._id, stream),
                               !.streamsByName = MapSet(@, stream.name, stream)]
         IN StreamLoopEndsQuietly(CatchParse(ParseStream(r1, stream)), docs, i + 1)

\* for (const stream of json.docs) { ... }: a null record throws outside the try
RECURSIVE StreamLoop(_, _, _)
StreamLoop(run, docs, i) ==
    IF i > Len(docs) THEN run
    ELSE IF docs[i] = None THEN Throw(run)
    ELSE LET stream == docs[i][1]
             r1 == [run EXCEPT !.streams = MapSet(@, stream._id, stream),
                               !.streamsByName = MapSet(@, stream.name, stream)]
         IN StreamLoop(CatchParse(ParseStream(r1, stream)), docs, i + 1)

\* Rebuild with the fault of a Directory that is emptied when the exception
\* leaves the loop
RebuildAllOrNothing(json) ==
    IF json.docs = None THEN Throw(NewRun)
    ELSE IF StreamLoop(NewRun, json.docs[1], 1).thrown THEN Throw(NewRun)
    ELSE StreamLoop(NewRun, json.docs[1], 1)

\* the Directory and the locals when the handler reaches the publishing part,
\* or when the exception leaves it (json.docs missing: not iterable)
Rebuild(json) ==
    IF json.docs = None THEN Throw(NewRun)
    ELSE StreamLoop(NewRun, json.docs[1], 1)

\* isEqual with the fault of comparing by reference (a === b): the value just
\* computed is never the cached object
isEqualByReference(a, b) == FALSE

\* _.isEqual: deep structural equality; two function objects are equal only
\* when they are the same object
isEqual(a, b) == a = b

(***************************************************************************)
(* formFields, initActions, initFeedbacks.  The definitions hold the       *)
(* choices of the stream and platform dropdowns and the callbacks, which   *)
(* are function objects created by the call: `callbacks` is the identity   *)
(* of those objects, different from that of the cached definitions.        *)
(***************************************************************************)
StreamChoices(m) ==
    [i \in 1..Len(m) |-> DropdownEntry(m[i].value.name)]
        \o [i \in 1..Len(m) |-> DropdownEntry(m[i].key)]

formFields(m, dropdown) == [stream |-> StreamChoices(m), platform |-> dropdown]

NewCallbacks(cache) == IF cache = None THEN 0 ELSE 1 - cache[1].callbacks

NewActions(m, dropdown, cache) ==
    [enableStream |-> formFields(m, dropdown).stream,
     enablePlatform |-> formFields(m, dropdown).platform,
     callbacks |-> NewCallbacks(cache)]

NewFeedbacks(m, dropdown, cache) ==
    [streamEnabled |-> formFields(m, dropdown).stream,
     platformsEnabled |-> formFields(m, dropdown).platform,
     callbacks |-> NewCallbacks(cache)]

\* initActions(): the new cache and the publish calls made
initActions(m, dropdown, cache) ==
    LET newActions == NewActions(m, dropdown, cache)
    IN IF ~isEqual(Some(newActions), cache)
       THEN [cache |-> Some(newActions), published |-> <<"actions">>]
       ELSE [cache |-> cache, published |-> <<>>]

initFeedbacks(m, dropdown, cache) ==
    LET feedbacks == NewFeedbacks(m, dropdown, cache)
    IN IF ~isEqual(Some(feedbacks), cache)
       THEN [cache |-> Some(feedbacks), published |-> <<"feedbacks">>]
       ELSE [cache |-> cache, published |-> <<>>]

(***************************************************************************)
(* The state.                                                              *)
(***************************************************************************)
VARIABLES
    streams,                  \* Map: stream id -> stream record
    streamsByName,            \* Map: stream name -> stream record
    platforms,                \* reference string -> {stream, platform}
    platformsDropdown,        \* the reference strings, as dropdown choices
    variableDefinitionsCache, \* last published definitions, or null
    variableValuesCache,      \* last published values, or null
    statusCache,              \* last status given to updateStatusCached
    actionsCache,             \* last published action definitions, or null
    feedbacksCache,           \* last published feedback definitions, or null
    config,                   \* the configuration, absent before init
    pollTimer,                \* the handle kept in this.pollTimer, 0 for null
    timers,                   \* the interval timers armed in the event loop
    lifecycle,                \* "new", "running", "destroyed"
    calls,                    \* how often the host ran a command
    remote,                   \* the body the service answers GET live_streams with
    inflight,                 \* the requests sent and not yet handled
    polls,                    \* the last two bodies .then of pollAPI handled
    observed,                 \* the last two statuses the host was notified of, the
                              \* mutations the service applied, and how many it had
                              \* applied when it answered the handled responses
    last                      \* what the last handler did to its collaborators

directory == <<streams, streamsByName, platforms, platformsDropdown>>
caches == <<variableDefinitionsCache, variableValuesCache, actionsCache, feedbacksCache>>
timing == <<config, pollTimer, timers, lifecycle>>
history == <<polls, observed>>
vars == <<directory, caches, statusCache, timing, calls, remote, inflight, history, last>>

\* a handler that called nothing
Quiet(event) ==
    [event |-> event, token |-> <<>>, onoff |-> "", options |-> None, answer |-> None,
     sent |-> <<>>, log |-> {}, published |-> <<>>, status |-> <<>>, thrown |-> FALSE]

\* the response a handler of callAPI's promise runs for
Answer(caller, kind, status) == Some([caller |-> caller, kind |-> kind, status |-> status])

\* the last two notifications once updateStatus was called with `status`
Notified(status) ==
    IF status = <<>> THEN observed.notified
    ELSE (IF observed.notified = <<>> THEN <<>>
          ELSE <<observed.notified[Len(observed.notified)]>>) \o status

(***************************************************************************)
(* callAPI: the request handed to fetch.                                   *)
(***************************************************************************)
Url(endpoint, pathParams) ==
    IF pathParams # <<>> THEN endpoint \o S_slash \o pathParams ELSE endpoint

\* `caller` is the function whose handlers are chained to the promise
Request(caller, method, endpoint, pathParams, bodyParams) ==
    [caller |-> caller, method |-> method, url |-> Url(endpoint, pathParams),
     body |-> bodyParams, response |-> None, stamp |-> 0]

GetStreams == Request("pollAPI", "GET", S_live_streams, <<>>, None)

\* a status update that always notifies
updateStatusUncached(status, cache) == [cache |-> status, status |-> <<status>>]

\* updateStatusCached(status): the new cache and the notifications made
updateStatusCached(status, cache) ==
    IF status # cache
    THEN [cache |-> status, status |-> <<status>>]
    ELSE [cache |-> cache, status |-> <<>>]

\* one status for every response that is not ok
FailureStatusGeneric(code) == "UnknownError"

\* the status callAPI records for a response that is not ok
FailureStatus(code) ==
    IF code = 401 THEN "AuthenticationFailure" ELSE "UnknownError"

(***************************************************************************)
(* The accounts of the remote service the model is run against.            *)
(***************************************************************************)
StreamNames == {<<"a">>, StreamId(1)}
PlatformKinds == {[name |-> <<"x">>, enabled |-> TRUE], [name |-> <<"y">>, enabled |-> FALSE]}
Intervals == {0, 10}

\* An account is drawn as a shape: per stream its name, its enabled flag and
\* the kinds of its platforms, and the record, if any, that is malformed.
RECURSIVE KindLists(_)
KindLists(n) ==
    IF n = 0 THEN {<<>>}
    ELSE {Append(l, k) : l \in KindLists(n - 1), k \in PlatformKinds}

\* the shapes of exactly n streams with at most p platforms in all
RECURSIVE Shapes(_, _)
Shapes(n, p) ==
    IF n = 0 THEN {<<>>}
    ELSE UNION {{Append(d, [name |-> name, enabled |-> enabled, kinds |-> l]) :
                    d \in Shapes(n - 1, p - k), name \in StreamNames,
                    enabled \in BOOLEAN, l \in KindLists(k)} :
                   k \in 0..p}

AccountShapes == UNION {Shapes(n, MaxPlatforms) : n \in 0..MaxDocs}

\* the record of stream i of a shape
Record(shape, i) ==
    Stream(i, shape[i].name, shape[i].enabled, Some(Ingest),
           Some([j \in 1..Len(shape[i].kinds) |->
                    Some(Platform(i, j, shape[i].kinds[j].name,
                                  shape[i].kinds[j].enabled))]))

\* a record the try block of pollAPI fails on: no ingest object, or a null
\* after the platforms
Break(stream, how) ==
    IF how = "ingest" THEN [stream EXCEPT !.ingest = None]
    ELSE [stream EXCEPT !.platforms = Some(Append(@[1], None))]

Account(shape) == [docs |-> Some([i \in 1..Len(shape) |-> Some(Record(shape, i))])]

Malformed(shape, at, how) ==
    [docs |-> Some([i \in 1..Len(shape) |->
                       Some(IF i = at THEN Break(Record(shape, i), how)
                            ELSE Record(shape, i))])]

Accounts == {Account(shape) : shape \in AccountShapes}

\* the malformed accounts: one record of an account is broken (the enabled
\* flags play no part in the failure: every stream is enabled)
MalformedAccounts ==
    UNION {{Malformed(shape, at, how) :
               at \in 1..Len(shape), how \in {"ingest", "platform"}} :
              shape \in {sh \in AccountShapes : \A i \in 1..Len(sh) : sh[i].enabled}}

(***************************************************************************)
(* init, configUpdated, the timer, destroy.                                *)
(***************************************************************************)
\* startPollTimer(): the handle is a new object of the event loop
\* arming without clearInterval
startPollTimerNoClear(cfg) ==
    LET handle == CHOOSE h \in 1..(Cardinality(timers) + 1) : h \notin timers
    IN IF cfg.pollInterval > 0
       THEN /\ pollTimer' = handle
            /\ timers' = timers \cup {handle}
       ELSE /\ pollTimer' = pollTimer
            /\ timers' = timers

startPollTimer(cfg) ==
    LET cleared == IF pollTimer # 0 THEN timers \ {pollTimer} ELSE timers
        handle == CHOOSE h \in 1..(Cardinality(cleared) + 1) : h \notin cleared
    IN IF cfg.pollInterval > 0
       THEN /\ pollTimer' = handle
            /\ timers' = cleared \cup {handle}
       ELSE /\ pollTimer' = pollTimer
            /\ timers' = cleared

\* pollAPI(): the GET is sent, its handlers run when the response is there
pollAPI == inflight' = Append(inflight, GetStreams)

\* initAPI(); initActions(); initFeedbacks()
Reinitialize(cfg, event, status) ==
    LET a == initActions(streams, platformsDropdown, actionsCache)
        f == initFeedbacks(streams, platformsDropdown, feedbacksCache)
    IN /\ Len(inflight) < MaxInFlight
       /\ config' = Some(cfg)
       /\ pollAPI
       /\ startPollTimer(cfg)
       /\ actionsCache' = a.cache
       /\ feedbacksCache' = f.cache
       /\ last' = [Quiet(event) EXCEPT !.sent = <<GetStreams>>,
                                       !.published = a.published \o f.published,
                                       !.status = status]
       /\ observed' = [observed EXCEPT !.notified = Notified(status)]
       /\ UNCHANGED <<directory, variableDefinitionsCache, variableValuesCache,
                      statusCache, remote, polls>>

init(cfg) ==
    /\ lifecycle = "new"
    /\ lifecycle' = "running"
    /\ calls' = calls
    /\ Reinitialize(cfg, "init", <<"Unknown">>)

configUpdated(cfg) ==
    /\ lifecycle = "running"
    /\ lifecycle' = lifecycle
    /\ calls' = calls
    /\ Reinitialize(cfg, "configUpdated", <<>>)

\* the callback of setInterval
TimerFired ==
    /\ timers # {}
    /\ Len(inflight) < MaxInFlight
    /\ pollAPI
    /\ last' = [Quiet("timer") EXCEPT !.sent = <<GetStreams>>]
    /\ UNCHANGED <<directory, caches, statusCache, timing, calls, remote, history>>

destroy ==
    /\ lifecycle = "running"
    /\ lifecycle' = "destroyed"
    /\ timers' = IF pollTimer # 0 THEN timers \ {pollTimer} ELSE timers
    /\ last' = Quiet("destroy")
    /\ UNCHANGED <<directory, caches, statusCache, config, pollTimer, calls, remote,
                   inflight, history>>

(***************************************************************************)
(* The service answers a GET; the response reaches callAPI and the         *)
(* handlers pollAPI chained to it.                                         *)
(***************************************************************************)
Ok(json) == [kind |-> "ok", status |-> 200, json |-> json]
HttpFailure(code) == [kind |-> "http", status |-> code, json |-> [docs |-> None]]
NetworkError == [kind |-> "error", status |-> 0, json |-> [docs |-> None]]

Remove(q, i) == SubSeq(q, 1, i - 1) \o SubSeq(q, i + 1, Len(q))

Failures == {HttpFailure(401), HttpFailure(500), NetworkError}

\* the service answers with the account as it is now; the answer is handled
\* later
RemoteAnswersGet(i) ==
    /\ i \in 1..Len(inflight)
    /\ inflight[i].method = "GET"
    /\ inflight[i].response = None
    /\ inflight' = [inflight EXCEPT ![i].response = Some(Ok(remote)),
                                    ![i].stamp = observed.applied]
    /\ UNCHANGED <<directory, caches, statusCache, timing, calls, remote, history, last>>

\* the body now handled and the one handled before it, with the publish calls
Handled(json, published) ==
    (IF polls = <<>> THEN <<>> ELSE <<polls[Len(polls)]>>)
        \o <<[json |-> json, published |-> published]>>

\* .then((json) => { ... }) of pollAPI, for the response stamped `stamp`
PollThen(json, stamp) ==
    \E run \in {Rebuild(json)} :
    LET defs == ~isEqual(Some(run.variableDefinitions), variableDefinitionsCache)
        vals == ~isEqual(Some(run.variableValues), variableValuesCache)
        a == initActions(run.streams, run.platformsDropdown, actionsCache)
        f == initFeedbacks(run.streams, run.platformsDropdown, feedbacksCache)
        st == updateStatusCached("Ok", statusCache)
    IN /\ streams' = run.streams
       /\ streamsByName' = run.streamsByName
       /\ platforms' = run.platforms
       /\ platformsDropdown' = run.platformsDropdown
       /\ IF run.thrown
          THEN /\ last' = [Quiet("poll") EXCEPT
                              !.answer = Answer("pollAPI", "ok", 200),
                              !.log = run.log \cup {"failed to read stream list"},
                              !.thrown = TRUE]
               /\ polls' = Handled(json, <<>>)
               /\ observed' = [observed EXCEPT
                                  !.handled = stamp,
                                  !.seen = IF stamp > @ THEN stamp ELSE @]
               /\ UNCHANGED <<caches, statusCache>>
          ELSE /\ variableDefinitionsCache' =
                      IF defs THEN Some(run.variableDefinitions)
                      ELSE variableDefinitionsCache
               /\ variableValuesCache' =
                      IF vals THEN Some(run.variableValues) ELSE variableValuesCache
               /\ actionsCache' = IF vals THEN a.cache ELSE actionsCache
               /\ feedbacksCache' = IF vals THEN f.cache ELSE feedbacksCache
               /\ statusCache' = st.cache
               /\ \E published \in {(IF defs THEN <<"variableDefinitions">> ELSE <<>>)
                                      \o (IF vals
                                          THEN <<"variableValues">> \o a.published
                                                   \o f.published
                                          ELSE <<>>)} :
                     /\ polls' = Handled(json, published)
                     /\ last' = [Quiet("poll") EXCEPT
                                    !.answer = Answer("pollAPI", "ok", 200),
                                    !.log = run.log,
                                    !.published = published,
                                    !.status = st.status]
                     /\ observed' = [observed EXCEPT
                                        !.notified = Notified(st.status),
                                        !.handled = stamp,
                                        !.seen = IF stamp > @ THEN stamp ELSE @]

\* the response is not ok: callAPI records the status and rejects
PollHttpFailure(code) ==
    LET st == updateStatusCached(FailureStatus(code), statusCache)
    IN /\ statusCache' = st.cache
       /\ last' = [Quiet("poll failed") EXCEPT
                      !.answer = Answer("pollAPI", "http", code),
                      !.log = {IF code = 401 THEN "API Authorization failed"
                               ELSE "API Error", "failed to read stream list"},
                      !.status = st.status]
       /\ observed' = [observed EXCEPT !.notified = Notified(st.status)]
       /\ UNCHANGED <<directory, caches>>

\* a handler of the rejection that resets the Directory
PollNetworkErrorClearing ==
    /\ last' = [Quiet("poll failed") EXCEPT
                   !.answer = Answer("pollAPI", "error", 0),
                   !.log = {"failed to read stream list"}]
    /\ streams' = <<>>
    /\ streamsByName' = <<>>
    /\ platforms' = <<>>
    /\ platformsDropdown' = <<>>
    /\ UNCHANGED <<caches, statusCache, observed>>

\* fetch rejected: callAPI rejects with the error
PollNetworkError ==
    /\ last' = [Quiet("poll failed") EXCEPT
                   !.answer = Answer("pollAPI", "error", 0),
                   !.log = {"failed to read stream list"}]
    /\ UNCHANGED <<directory, caches, statusCache, observed>>

\* a handler that rebuilds from the response of the request issued last
PollResponseOfLatest(i) ==
    /\ i \in 1..Len(inflight)
    /\ inflight[i].method = "GET"
    /\ inflight[i].response # None
    /\ inflight' = Remove(inflight, i)
    /\ LET answered == {j \in 1..Len(inflight) :
                           inflight[j].method = "GET" /\ inflight[j].response # None}
           j == CHOOSE j \in answered : \A k \in answered : k <= j
       IN PollThen(inflight[j].response[1].json, inflight[j].stamp)
    /\ UNCHANGED <<timing, calls, remote>>

\* the response is there and is ok
PollResponse(i) ==
    /\ i \in 1..Len(inflight)
    /\ inflight[i].method = "GET"
    /\ inflight[i].response # None
    /\ inflight' = Remove(inflight, i)
    /\ PollThen(inflight[i].response[1].json, inflight[i].stamp)
    /\ UNCHANGED <<timing, calls, remote>>

\* a failure that cancels the timer
PollFailedDisarms(i, r) ==
    /\ i \in 1..Len(inflight)
    /\ inflight[i].method = "GET"
    /\ inflight' = Remove(inflight, i)
    /\ IF r.kind = "http" THEN PollHttpFailure(r.status) ELSE PollNetworkError
    /\ timers' = {}
    /\ UNCHANGED <<config, pollTimer, lifecycle, calls, remote, polls>>

\* the request fails: a response that is not ok, or no response
PollFailed(i, r) ==
    /\ i \in 1..Len(inflight)
    /\ inflight[i].method = "GET"
    /\ inflight' = Remove(inflight, i)
    /\ IF r.kind = "http" THEN PollHttpFailure(r.status) ELSE PollNetworkError
    /\ UNCHANGED <<timing, calls, remote, polls>>

Start(accounts) ==
    /\ streams = <<>>
    /\ streamsByName = <<>>
    /\ platforms = <<>>
    /\ platformsDropdown = <<>>
    /\ variableDefinitionsCache = None
    /\ variableValuesCache = None
    /\ statusCache = "null"
    /\ actionsCache = None
    /\ feedbacksCache = None
    /\ config = None
    /\ pollTimer = 0
    /\ timers = {}
    /\ lifecycle = "new"
    /\ calls = [commands |-> 0]
    /\ remote \in accounts
    /\ inflight = <<>>
    /\ polls = <<>>
    /\ observed = [notified |-> <<>>, applied |-> 0, handled |-> 0, seen |-> 0]
    /\ last = Quiet("")

(***************************************************************************)
(* resolveOptions: the `stream` and `platform` options of an action or a   *)
(* feedback, resolved against the Directory.                               *)
(***************************************************************************)
\* the tokens of the user; one of them is a variable of the host
VariableToken == <<"$", "(", "v", ")">>
UnknownToken == <<"z">>

\* context.parseVariablesInString: the variable stands for the id of stream 1
parseVariablesInString(s) == IF s = VariableToken THEN StreamId(1) ELSE s

Options(stream, platform, onoff) ==
    [stream |-> stream, platform |-> platform, onoff |-> onoff, platforms |-> None]

\* ResolveStream with the fault of trying the name before the id
ResolveStreamNameFirst(r, m, byName) ==
    IF r.options.stream = None THEN r
    ELSE LET s == parseVariablesInString(r.options.stream[1])
         IN IF MapHas(byName, s)
            THEN [r EXCEPT !.options.stream = Some(MapGet(byName, s)._id)]
            ELSE IF MapHas(m, s)
            THEN [r EXCEPT !.options.stream = Some(s)]
            ELSE [r EXCEPT !.options.stream = Some(s),
                           !.returnValue = FALSE,
                           !.log = @ \cup {"Stream name not found, passing as-is"}]

\* the stream part of resolveOptions
ResolveStream(r, m, byName) ==
    IF r.options.stream = None THEN r
    ELSE LET s == parseVariablesInString(r.options.stream[1])
         IN IF MapHas(m, s)
            THEN [r EXCEPT !.options.stream = Some(s)]
            ELSE IF MapHas(byName, s)
            THEN [r EXCEPT !.options.stream = Some(MapGet(byName, s)._id)]
            ELSE [r EXCEPT !.options.stream = Some(s),
                           !.returnValue = FALSE,
                           !.log = @ \cup {"Stream name not found, passing as-is"}]

\* MatchingPlatforms with the fault of a missing wildcard test
RECURSIVE MatchingPlatformsByNameOnly(_, _, _, _)
MatchingPlatformsByNameOnly(r, stream, platformName, j) ==
    IF j > Len(stream.platforms[1]) THEN r
    ELSE IF stream.platforms[1][j] = None THEN [r EXCEPT !.thrown = TRUE]
    ELSE LET platform == stream.platforms[1][j][1]
         IN MatchingPlatformsByNameOnly(
                IF Some(platform.name) = platformName
                THEN [r EXCEPT !.options.platforms =
                                   Some(Append(@[1], [id |-> platform._id,
                                                      enabled |-> platform.enabled]))]
                ELSE r,
                stream, platformName, j + 1)

\* MatchingPlatforms with the fault of taking the flag of the owning stream
RECURSIVE MatchingPlatformsStreamFlag(_, _, _, _)
MatchingPlatformsStreamFlag(r, stream, platformName, j) ==
    IF j > Len(stream.platforms[1]) THEN r
    ELSE IF stream.platforms[1][j] = None THEN [r EXCEPT !.thrown = TRUE]
    ELSE LET platform == stream.platforms[1][j][1]
         IN MatchingPlatformsStreamFlag(
                IF Some(platform.name) = platformName \/ platformName = Some(AllMarker)
                THEN [r EXCEPT !.options.platforms =
                                   Some(Append(@[1], [id |-> platform._id,
                                                      enabled |-> stream.enabled]))]
                ELSE r,
                stream, platformName, j + 1)

\* MatchingPlatforms with the fault of keeping one entry per platform name
RECURSIVE MatchingPlatformsOncePerName(_, _, _, _)
MatchingPlatformsOncePerName(r, stream, platformName, j) ==
    IF j > Len(stream.platforms[1]) THEN r
    ELSE IF stream.platforms[1][j] = None THEN [r EXCEPT !.thrown = TRUE]
    ELSE LET platform == stream.platforms[1][j][1]
             seen == \E k \in 1..(j - 1) : stream.platforms[1][k][1].name = platform.name
         IN MatchingPlatformsOncePerName(
                IF (Some(platform.name) = platformName /\ ~seen)
                       \/ platformName = Some(AllMarker)
                THEN [r EXCEPT !.options.platforms =
                                   Some(Append(@[1], [id |-> platform._id,
                                                      enabled |-> platform.enabled]))]
                ELSE r,
                stream, platformName, j + 1)

\* for (const platform of stream.platforms) if (...) platforms.push(...)
RECURSIVE MatchingPlatforms(_, _, _, _)
MatchingPlatforms(r, stream, platformName, j) ==
    IF j > Len(stream.platforms[1]) THEN r
    ELSE IF stream.platforms[1][j] = None THEN [r EXCEPT !.thrown = TRUE]
    ELSE LET platform == stream.platforms[1][j][1]
         IN MatchingPlatforms(
                IF Some(platform.name) = platformName \/ platformName = Some(AllMarker)
                THEN [r EXCEPT !.options.platforms =
                                   Some(Append(@[1], [id |-> platform._id,
                                                      enabled |-> platform.enabled]))]
                ELSE r,
                stream, platformName, j + 1)

\* ResolvePlatform with the fault of accepting a stream id as the stream part
ResolvePlatformByIdToo(r, m, byName) ==
    IF r.options.platform = None THEN r
    ELSE LET p == parseVariablesInString(r.options.platform[1])
             parts == split(p, Separator)
             streamName == parts[1]
             platformName == IF Len(parts) >= 2 THEN Some(parts[2]) ELSE None
         IN IF MapHas(byName, streamName) \/ MapHas(m, streamName)
            THEN LET stream == IF MapHas(byName, streamName)
                               THEN MapGet(byName, streamName)
                               ELSE MapGet(m, streamName)
                     r1 == [r EXCEPT !.options.platform = Some(p),
                                     !.options.stream = Some(stream._id),
                                     !.options.platforms = Some(<<>>)]
                 IN IF stream.platforms # None
                    THEN MatchingPlatforms(r1, stream, platformName, 1)
                    ELSE r1
            ELSE [r EXCEPT !.options.platform = Some(p),
                           !.returnValue = FALSE,
                           !.log = @ \cup {"platform not found"}]

\* the platform part of resolveOptions
ResolvePlatform(r, m, byName) ==
    IF r.options.platform = None THEN r
    ELSE LET p == parseVariablesInString(r.options.platform[1])
             parts == split(p, Separator)
             streamName == parts[1]
             platformName == IF Len(parts) >= 2 THEN Some(parts[2]) ELSE None
         IN IF MapHas(byName, streamName)
            THEN LET stream == MapGet(byName, streamName)
                     r1 == [r EXCEPT !.options.platform = Some(p),
                                     !.options.stream = Some(stream._id),
                                     !.options.platforms = Some(<<>>)]
                 IN IF stream.platforms # None
                    THEN MatchingPlatforms(r1, stream, platformName, 1)
                    ELSE r1
            ELSE [r EXCEPT !.options.platform = Some(p),
                           !.returnValue = FALSE,
                           !.log = @ \cup {"platform not found"}]

\* the options as resolved, the value returned, what was logged and whether
\* the function threw
resolveOptions(options, m, byName) ==
    ResolvePlatform(
        ResolveStream([options |-> options, returnValue |-> TRUE, log |-> {},
                       thrown |-> FALSE], m, byName),
        m, byName)

(***************************************************************************)
(* The command handlers, from the point where the expansion of the token   *)
(* is there: the part of the handler before it only logs.                  *)
(***************************************************************************)
OnOffToggle == [ON |-> "enable", OFF |-> "disable", TOGGLE |-> "toggle"]
OnOff == {OnOffToggle.ON, OnOffToggle.OFF, OnOffToggle.TOGGLE}

\* StreamTarget with the fault of a toggle that sends the flag as it is
StreamTargetNoNegation(onoff, stream, m) ==
    IF onoff = OnOffToggle.ON THEN [enabled |-> TRUE, log |-> {}]
    ELSE IF onoff = OnOffToggle.OFF THEN [enabled |-> FALSE, log |-> {}]
    ELSE IF MapHas(m, stream)
         THEN [enabled |-> Truthy(MapGet(m, stream).enabled), log |-> {}]
         ELSE [enabled |-> FALSE, log |-> {"Stream not found, cannot toggle"}]

\* the switch of actionEnableStream: the value sent and what is logged
StreamTarget(onoff, stream, m) ==
    IF onoff = OnOffToggle.ON THEN [enabled |-> TRUE, log |-> {}]
    ELSE IF onoff = OnOffToggle.OFF THEN [enabled |-> FALSE, log |-> {}]
    ELSE IF MapHas(m, stream)
         THEN [enabled |-> ~Truthy(MapGet(m, stream).enabled), log |-> {}]
         ELSE [enabled |-> FALSE, log |-> {"Stream not found, cannot toggle"}]

\* StreamRequests with the fault of giving up when resolveOptions returned
\* false: if (!(await this.resolveOptions(action, context))) return
StreamRequestsResolvedOnly(r, onoff, m) ==
    IF ~r.returnValue THEN <<>>
    ELSE <<Request("actionEnableStream", "PATCH", S_live_streams, r.options.stream[1],
                   Some(StreamTarget(onoff, r.options.stream[1], m).enabled))>>

\* the requests actionEnableStream makes once the options are resolved
StreamRequests(r, onoff, m) ==
    <<Request("actionEnableStream", "PATCH", S_live_streams, r.options.stream[1],
              Some(StreamTarget(onoff, r.options.stream[1], m).enabled))>>

Called(event, token, onoff) ==
    [Quiet(event) EXCEPT !.token = token, !.onoff = onoff]

\* actionEnableStream, invoked at most `budget` times
EnableStreamWithin(budget, token, onoff) ==
    /\ lifecycle = "running"
    /\ calls.commands < budget
    /\ calls' = [calls EXCEPT !.commands = @ + 1]
    /\ \E r \in {resolveOptions(Options(Some(token), None, onoff), streams, streamsByName)} :
       \E requests \in {StreamRequests(r, onoff, streams)} :
          /\ Len(inflight) + Len(requests) <= MaxInFlight
          /\ inflight' = inflight \o requests
          /\ last' = [Called("actionEnableStream", token, onoff) EXCEPT
                         !.options = Some(r.options),
                         !.sent = requests,
                         !.log = r.log \cup
                                 StreamTarget(onoff, r.options.stream[1], streams).log]
    /\ UNCHANGED <<directory, caches, statusCache, timing, remote, history>>

actionEnableStream(token, onoff) == EnableStreamWithin(MaxCommands, token, onoff)

\* PlatformTarget with the fault of a toggle that sends the flag as it is
PlatformTargetNoNegation(onoff, platform) ==
    IF onoff = OnOffToggle.ON THEN TRUE
    ELSE IF onoff = OnOffToggle.OFF THEN FALSE
    ELSE Truthy(platform.enabled)

\* the switch of actionEnablePlatform
PlatformTarget(onoff, platform) ==
    IF onoff = OnOffToggle.ON THEN TRUE
    ELSE IF onoff = OnOffToggle.OFF THEN FALSE
    ELSE ~Truthy(platform.enabled)

\* the requests actionEnablePlatform makes once the options are resolved
\* a loop that ends after its first request
PlatformRequestsFirstOnly(r, onoff) ==
    [j \in 1..(IF r.options.platforms[1] = <<>> THEN 0 ELSE 1) |->
        Request("actionEnablePlatform", "PATCH", S_live_streams,
                r.options.stream[1] \o S_platforms \o r.options.platforms[1][j].id,
                Some(PlatformTarget(onoff, r.options.platforms[1][j])))]

PlatformRequests(r, onoff) ==
    [j \in 1..Len(r.options.platforms[1]) |->
        Request("actionEnablePlatform", "PATCH", S_live_streams,
                r.options.stream[1] \o S_platforms \o r.options.platforms[1][j].id,
                Some(PlatformTarget(onoff, r.options.platforms[1][j])))]

\* resolveOptions threw, or options.platforms is not iterable: the handler
\* ends with the exception
actionEnablePlatform(token, onoff) ==
    /\ lifecycle = "running"
    /\ calls.commands < MaxCommands
    /\ calls' = [calls EXCEPT !.commands = @ + 1]
    /\ \E r \in {resolveOptions(Options(None, Some(token), onoff), streams, streamsByName)} :
       \E requests \in {IF r.thrown \/ r.options.platforms = None THEN <<>>
                        ELSE PlatformRequests(r, onoff)} :
          /\ Len(inflight) + Len(requests) <= MaxInFlight
          /\ inflight' = inflight \o requests
          /\ last' = [Called("actionEnablePlatform", token, onoff) EXCEPT
                         !.options = Some(r.options),
                         !.sent = requests,
                         !.log = r.log,
                         !.thrown = r.thrown \/ r.options.platforms = None]
    /\ UNCHANGED <<directory, caches, statusCache, timing, remote, history>>

(***************************************************************************)
(* The callback of the platformsEnabled feedback: what it returns for a    *)
(* platform token, or that it ended with an exception.                     *)
(***************************************************************************)
\* if (Object.keys(this.platforms).length && (await this.resolveOptions(...)))
platformsEnabled(token) ==
    IF DOMAIN platforms = {} THEN [value |-> FALSE, thrown |-> FALSE]
    ELSE LET r == resolveOptions(Options(None, Some(token), ""), streams, streamsByName)
         IN IF r.thrown THEN [value |-> FALSE, thrown |-> TRUE]
            ELSE IF ~r.returnValue THEN [value |-> FALSE, thrown |-> FALSE]
            ELSE [value |-> \A j \in DOMAIN r.options.platforms[1] :
                               Truthy(r.options.platforms[1][j].enabled),
                  thrown |-> FALSE]

\* the host evaluates the feedback for a token
platformsEnabledCallback(token) ==
    /\ lifecycle = "running"
    /\ feedbacksCache # None
    /\ \E result \in {platformsEnabled(token)} :
          last' = [Called("platformsEnabled", token, "") EXCEPT
                      !.answer = Answer("platformsEnabled",
                                        IF result.thrown THEN "exception"
                                        ELSE IF result.value THEN "true" ELSE "false", 0),
                      !.thrown = result.thrown]
    /\ UNCHANGED <<directory, caches, statusCache, timing, calls, remote, inflight, history>>

(***************************************************************************)
(* The service handles a PATCH and the response reaches callAPI and the    *)
(* handlers the command chained to it.                                     *)
(***************************************************************************)
StreamUrl(id) == Url(S_live_streams, id)
PlatformUrl(id, platformId) == Url(S_live_streams, id \o S_platforms \o platformId)

PatchedPlatforms(stream, url, enabled) ==
    [j \in 1..Len(stream.platforms[1]) |->
        IF stream.platforms[1][j] = None THEN None
        ELSE IF url = PlatformUrl(stream._id, stream.platforms[1][j][1]._id)
        THEN Some([stream.platforms[1][j][1] EXCEPT !.enabled = JBool(enabled)])
        ELSE stream.platforms[1][j]]

PatchedStream(stream, url, enabled) ==
    IF url = StreamUrl(stream._id) THEN [stream EXCEPT !.enabled = JBool(enabled)]
    ELSE IF stream.platforms = None THEN stream
    ELSE [stream EXCEPT !.platforms = Some(PatchedPlatforms(stream, url, enabled))]

\* the account once the service has applied PATCH url {enabled}
Patched(json, url, enabled) ==
    IF json.docs = None THEN json
    ELSE [docs |-> Some([i \in 1..Len(json.docs[1]) |->
                            IF json.docs[1][i] = None THEN None
                            ELSE Some(PatchedStream(json.docs[1][i][1], url, enabled))])]

\* the url names a stream or a platform of the account
Resource(json, url) ==
    /\ json.docs # None
    /\ \E i \in 1..Len(json.docs[1]) :
          /\ json.docs[1][i] # None
          /\ LET stream == json.docs[1][i][1]
             IN \/ url = StreamUrl(stream._id)
                \/ /\ stream.platforms # None
                   /\ \E j \in 1..Len(stream.platforms[1]) :
                         /\ stream.platforms[1][j] # None
                         /\ url = PlatformUrl(stream._id, stream.platforms[1][j][1]._id)

FailedTo(caller) ==
    IF caller = "actionEnableStream" THEN "failed to enable stream"
    ELSE "failed to enable platform"

\* a handler of the response that starts no poll
PatchThenNoRepoll(i) ==
    /\ inflight' = Remove(inflight, i)
    /\ last' = [Quiet("patched") EXCEPT
                   !.answer = Answer(inflight[i].caller, "ok", 200)]
    /\ observed' = [observed EXCEPT !.applied = @ + 1]
    /\ UNCHANGED statusCache

\* .then((json) => { this.pollAPI() })
PatchThen(i) ==
    \E requests \in {<<GetStreams>>} :
        /\ inflight' = Remove(inflight, i) \o requests
        /\ last' = [Quiet("patched") EXCEPT
                       !.answer = Answer(inflight[i].caller, "ok", 200),
                       !.sent = requests]
        /\ observed' = [observed EXCEPT !.applied = @ + 1]
        /\ UNCHANGED statusCache

\* a rejection that is followed by a poll
PatchHttpFailureRepolls(i, code) ==
    LET st == updateStatusCached(FailureStatus(code), statusCache)
    IN /\ inflight' = Append(Remove(inflight, i), GetStreams)
       /\ statusCache' = st.cache
       /\ last' = [Quiet("patch failed") EXCEPT
                      !.answer = Answer(inflight[i].caller, "http", code),
                      !.log = {IF code = 401 THEN "API Authorization failed"
                               ELSE "API Error", FailedTo(inflight[i].caller)},
                      !.sent = <<GetStreams>>,
                      !.status = st.status]
       /\ observed' = [observed EXCEPT !.notified = Notified(st.status)]

PatchHttpFailure(i, code) ==
    LET st == updateStatusCached(FailureStatus(code), statusCache)
    IN /\ inflight' = Remove(inflight, i)
       /\ statusCache' = st.cache
       /\ last' = [Quiet("patch failed") EXCEPT
                      !.answer = Answer(inflight[i].caller, "http", code),
                      !.log = {IF code = 401 THEN "API Authorization failed"
                               ELSE "API Error", FailedTo(inflight[i].caller)},
                      !.status = st.status]
       /\ observed' = [observed EXCEPT !.notified = Notified(st.status)]

PatchNetworkError(i) ==
    /\ inflight' = Remove(inflight, i)
    /\ last' = [Quiet("patch failed") EXCEPT
                   !.answer = Answer(inflight[i].caller, "error", 0),
                   !.log = {FailedTo(inflight[i].caller)}]
    /\ UNCHANGED <<statusCache, observed>>

\* r: the service handles the request ("ok": 200 when the url names a
\* resource, 404 otherwise), or the request fails
PatchResponse(i, r) ==
    /\ i \in 1..Len(inflight)
    /\ inflight[i].method = "PATCH"
    /\ IF r.kind = "ok" /\ Resource(remote, inflight[i].url)
       THEN /\ remote' = Patched(remote, inflight[i].url, inflight[i].body[1])
            /\ PatchThen(i)
       ELSE /\ remote' = remote
            /\ CASE r.kind = "ok" -> PatchHttpFailure(i, 404)
                 [] r.kind = "http" -> PatchHttpFailure(i, r.status)
                 [] OTHER -> PatchNetworkError(i)
    /\ UNCHANGED <<directory, caches, timing, calls, polls>>


(***************************************************************************)
(* The rebuild alone: init, the answer of the service and the handler of   *)
(* the response, for every account and every malformed account.            *)
(***************************************************************************)
InitRebuild == Start(Accounts \cup MalformedAccounts)

NextRebuild ==
    \/ init([pollInterval |-> 0])
    \/ RemoteAnswersGet(1)
    \/ PollResponse(1)

SpecRebuild == InitRebuild /\ [][NextRebuild]_vars

(***************************************************************************)
(* One command on the Directory of a handled poll, for every account and   *)
(* every token.                                                            *)
(***************************************************************************)
StreamTokens ==
    {StreamId(i) : i \in 1..MaxDocs} \cup StreamNames \cup {UnknownToken, VariableToken}

PlatformTokens ==
    {s \o Separator \o p :
        s \in StreamNames \cup {StreamId(MaxDocs), UnknownToken},
        p \in {k.name : k \in PlatformKinds} \cup {AllMarker}}
    \cup StreamNames

InitCommand == Start(Accounts)

NextCommand ==
    \/ init([pollInterval |-> 0])
    \/ RemoteAnswersGet(1)
    \/ PollResponse(1)
    \/ /\ inflight = <<>> /\ calls.commands = 0
       /\ \E token \in StreamTokens, onoff \in OnOff : actionEnableStream(token, onoff)
    \/ /\ inflight = <<>> /\ calls.commands = 0
       /\ \E token \in PlatformTokens, onoff \in OnOff :
             actionEnablePlatform(token, onoff)

SpecCommand == InitCommand /\ [][NextCommand]_vars

(***************************************************************************)
(* Polls one after the other: the timer fires, the responses arrive in any *)
(* order or fail, and the account changes on the service in between.       *)
(***************************************************************************)
RepollAccounts ==
    {Account(<<[name |-> <<"a">>, enabled |-> FALSE, kinds |-> <<>>]>>),
     Account(<<[name |-> <<"a">>, enabled |-> TRUE,
               kinds |-> <<[name |-> <<"x">>, enabled |-> TRUE]>>]>>),
     Malformed(<<[name |-> <<"a">>, enabled |-> TRUE, kinds |-> <<>>]>>, 1, "ingest")}

\* the streams of the account are edited on the service
RemoteChanges(accounts) ==
    /\ remote' \in accounts \ {remote}
    /\ UNCHANGED <<directory, caches, statusCache, timing, calls, inflight, history, last>>

\* the account as it is when the module starts; it is edited later
InitRepoll == Start({Account(<<[name |-> <<"a">>, enabled |-> FALSE, kinds |-> <<>>]>>)})

NextRepoll ==
    \/ init([pollInterval |-> 10])
    \/ TimerFired
    \/ RemoteChanges(RepollAccounts)
    \/ \E i \in 1..MaxInFlight : RemoteAnswersGet(i)
    \/ \E i \in 1..MaxInFlight : PollResponse(i)
    \/ \E i \in 1..MaxInFlight : PollFailed(i, HttpFailure(500))

SpecRepoll == InitRepoll /\ [][NextRepoll]_vars

(***************************************************************************)
(* End to end: the account of stream 'A' (s1, disabled) and stream 'B'     *)
(* (s2, enabled, platform 'yt' p1, enabled), polled and commanded.         *)
(***************************************************************************)
EndToEndAccount ==
    [docs |-> Some(<<
        Some(Stream(1, <<"A">>, FALSE, Some(Ingest), Some(<<>>))),
        Some(Stream(2, <<"B">>, TRUE, Some(Ingest),
                    Some(<<Some([Platform(2, 1, <<"y", "t">>, TRUE)
                                    EXCEPT !._id = <<"p", "1">>])>>)))>>)]

EndToEndStreamTokens == {<<"A">>, <<"B">>, StreamId(1), UnknownToken}
EndToEndPlatformTokens ==
    {<<"B">> \o Separator \o <<"y", "t">>, <<"B">> \o Separator \o AllMarker,
     <<"A">> \o Separator \o <<"y", "t">>}

InitEndToEnd == Start({EndToEndAccount})

NextEndToEnd ==
    \/ init([pollInterval |-> 0])
    \/ \E i \in 1..MaxInFlight : RemoteAnswersGet(i)
    \/ \E i \in 1..MaxInFlight : PollResponse(i)
    \/ \E token \in EndToEndStreamTokens, onoff \in OnOff :
          actionEnableStream(token, onoff)
    \/ \E token \in EndToEndPlatformTokens, onoff \in OnOff :
          actionEnablePlatform(token, onoff)
    \/ \E i \in 1..MaxInFlight : PatchResponse(i, Ok(remote))

SpecEndToEnd == InitEndToEnd /\ [][NextEndToEnd]_vars

(***************************************************************************)
(* Failing calls: polls and commands whose requests are answered with      *)
(* success, with a non-success status or not at all.  Stream 'B' has two   *)
(* platforms, so that a command on all of them fans out.                   *)
(***************************************************************************)
FanOutAccount ==
    [docs |-> Some(<<
        Some(Stream(1, <<"A">>, FALSE, Some(Ingest), Some(<<>>))),
        Some(Stream(2, <<"B">>, TRUE, Some(Ingest),
                    Some(<<Some(Platform(2, 1, <<"y", "t">>, TRUE)),
                           Some(Platform(2, 2, <<"f", "b">>, FALSE))>>)))>>)]

InitFailures == Start({FanOutAccount})

NextFailures ==
    \/ init([pollInterval |-> 0])
    \/ \E i \in 1..MaxInFlight : RemoteAnswersGet(i)
    \/ \E i \in 1..MaxInFlight : PollResponse(i)
    \/ \E i \in 1..MaxInFlight, r \in Failures : PollFailed(i, r)
    \/ \E token \in {<<"A">>, UnknownToken}, onoff \in OnOff :
          actionEnableStream(token, onoff)
    \/ \E token \in EndToEndPlatformTokens, onoff \in {OnOffToggle.TOGGLE} :
          actionEnablePlatform(token, onoff)
    \/ \E i \in 1..MaxInFlight, r \in {Ok(remote)} \cup Failures : PatchResponse(i, r)

SpecFailures == InitFailures /\ [][NextFailures]_vars

(***************************************************************************)
(* Convergence: commands whose requests the service handles, their         *)
(* re-polls and the polls of the timer, handled in any order.              *)
(***************************************************************************)
NextConverge ==
    \/ init([pollInterval |-> 10])
    \/ TimerFired
    \/ \E i \in 1..MaxInFlight : RemoteAnswersGet(i)
    \/ \E i \in 1..MaxInFlight : PollResponse(i)
    \/ actionEnableStream(<<"A">>, OnOffToggle.TOGGLE)
    \/ actionEnablePlatform(<<"B">> \o Separator \o <<"y", "t">>, OnOffToggle.TOGGLE)
    \/ \E i \in 1..MaxInFlight : PatchResponse(i, Ok(remote))

SpecConverge == InitFailures /\ [][NextConverge]_vars

(***************************************************************************)
(* The poll timer: the module is initialised, reconfigured and destroyed   *)
(* while its timer ticks and a command is answered.                        *)
(***************************************************************************)
NextTimer ==
    \/ \E cfg \in [pollInterval : Intervals] : init(cfg)
    \/ \E cfg \in [pollInterval : Intervals] : configUpdated(cfg)
    \/ TimerFired
    \/ destroy
    \/ \E i \in 1..MaxInFlight : RemoteAnswersGet(i)
    \/ \E i \in 1..MaxInFlight : PollResponse(i)
    \/ actionEnableStream(<<"A">>, OnOffToggle.ON)
    \/ \E i \in 1..MaxInFlight : PatchResponse(i, Ok(remote))

SpecTimer == InitFailures /\ [][NextTimer]_vars

(***************************************************************************)
(* The views: an account whose names hold a character addVar replaces, is  *)
(* edited between the polls of the timer: a platform is renamed; a record  *)
(* loses its ingest object and a null record follows it.                   *)
(***************************************************************************)
ViewStream(platformName, ingest) ==
    Some(Stream(1, <<"a", " ", "b">>, TRUE, ingest,
                Some(<<Some(Platform(1, 1, platformName, TRUE))>>)))

ViewAccounts ==
    {[docs |-> Some(<<ViewStream(<<"x", " ", "y">>, Some(Ingest))>>)],
     [docs |-> Some(<<ViewStream(<<"x", "_", "y">>, Some(Ingest))>>)],
     [docs |-> Some(<<ViewStream(<<"x", " ", "y">>, None), None>>)]}

\* the account as it is when the module starts; it is edited later
InitViews == Start({[docs |-> Some(<<ViewStream(<<"x", " ", "y">>, Some(Ingest))>>)]})

NextViews ==
    \/ init([pollInterval |-> 10])
    \/ TimerFired
    \/ RemoteChanges(ViewAccounts)
    \/ \E i \in 1..MaxInFlight : RemoteAnswersGet(i)
    \/ \E i \in 1..MaxInFlight : PollResponse(i)

SpecViews == InitViews /\ [][NextViews]_vars

(***************************************************************************)
(* Retrying: the polls of an armed timer fail or succeed.  setInterval     *)
(* keeps calling its callback, and every request is settled in the end, by *)
(* a response or by an error of the transport.                             *)
(***************************************************************************)
NextRetry ==
    \/ init([pollInterval |-> 10])
    \/ TimerFired
    \/ \E i \in 1..MaxInFlight : RemoteAnswersGet(i)
    \/ \E i \in 1..MaxInFlight : PollResponse(i)
    \/ \E i \in 1..MaxInFlight, r \in Failures : PollFailed(i, r)

SpecRetry ==
    /\ InitFailures
    /\ [][NextRetry]_vars
    /\ WF_vars(TimerFired)
    /\ WF_vars(\E i \in 1..MaxInFlight, r \in Failures : PollFailed(i, r))

(***************************************************************************)
(* Toggles of stream s1 by its id and polls of an account whose responses  *)
(* may lack the document list or hold a null record.  The PATCH requests   *)
(* stay in flight, and a response whose handler runs to its end is handled *)
(* only while no PATCH is in flight: every poll handled between two        *)
(* toggles in flight is one whose handler threw.                           *)
(***************************************************************************)
BrokenAccounts ==
    {[docs |-> None],
     [docs |-> Some(<<Some(Stream(1, <<"A">>, TRUE, Some(Ingest), Some(<<>>))), None>>)]}

NoPatchInFlight == \A k \in 1..Len(inflight) : inflight[k].method # "PATCH"

NextToggle ==
    \/ init([pollInterval |-> 10])
    \/ TimerFired
    \/ RemoteChanges({FanOutAccount} \cup BrokenAccounts)
    \/ \E i \in 1..MaxInFlight : RemoteAnswersGet(i)
    \/ \E i \in 1..MaxInFlight :
          /\ PollResponse(i)
          /\ NoPatchInFlight \/ Rebuild(inflight[i].response[1].json).thrown
    \/ EnableStreamWithin(MaxToggles, StreamId(1), OnOffToggle.TOGGLE)

SpecToggle == InitFailures /\ [][NextToggle]_vars

(***************************************************************************)
(* One poll of an account, and the platformsEnabled feedback evaluated     *)
(* for the tokens of a user.  The accounts: stream A without               *)
(* platform and stream B with platforms yt (enabled) and fb (disabled);    *)
(* stream B with yt alone; stream A alone; stream B with yt and a null     *)
(* entry in its platform list.                                             *)
(***************************************************************************)
S_yt == <<"y", "t">>
S_fb == <<"f", "b">>

QueryAccounts ==
    {FanOutAccount,
     Account(<<[name |-> <<"B">>, enabled |-> TRUE,
                kinds |-> <<[name |-> S_yt, enabled |-> TRUE]>>]>>),
     Account(<<[name |-> <<"A">>, enabled |-> TRUE, kinds |-> <<>>]>>),
     [docs |-> Some(<<Some(Stream(1, <<"B">>, TRUE, Some(Ingest),
                                  Some(<<Some(Platform(1, 1, S_yt, TRUE)), None>>)))>>)]}

InitQuery == Start(QueryAccounts)

NextQuery ==
    \/ init([pollInterval |-> 0])
    \/ RemoteAnswersGet(1)
    \/ PollResponse(1)
    \/ \E token \in {s \o Separator \o p :
                         s \in {<<"A">>, <<"B">>, StreamId(2), UnknownToken},
                         p \in {S_yt, S_fb, AllMarker}} \cup {<<"B">>} :
          platformsEnabledCallback(token)

SpecQuery == InitQuery /\ [][NextQuery]_vars

(***************************************************************************)
(* The module in its environment.                                          *)
(***************************************************************************)
SystemAccounts == {Account(<<[name |-> <<"a">>, enabled |-> FALSE, kinds |-> <<>>],
                             [name |-> StreamId(1), enabled |-> TRUE,
                              kinds |-> <<[name |-> <<"x">>, enabled |-> TRUE]>>]>>)}

SystemStreamTokens == {StreamId(1), UnknownToken}
SystemPlatformTokens == {StreamId(1) \o Separator \o AllMarker,
                         UnknownToken \o Separator \o AllMarker}

Init == Start(SystemAccounts)

Next ==
    \/ \E cfg \in [pollInterval : Intervals] : init(cfg)
    \/ \E cfg \in [pollInterval : Intervals] : configUpdated(cfg)
    \/ TimerFired
    \/ destroy
    \/ \E i \in 1..MaxInFlight : RemoteAnswersGet(i)
    \/ \E i \in 1..MaxInFlight : PollResponse(i)
    \/ \E i \in 1..MaxInFlight : \E r \in Failures : PollFailed(i, r)
    \/ \E i \in 1..MaxInFlight : \E r \in {Ok(remote)} \cup Failures : PatchResponse(i, r)
    \/ \E token \in SystemStreamTokens, onoff \in OnOff : actionEnableStream(token, onoff)
    \/ \E token \in SystemPlatformTokens, onoff \in OnOff :
          actionEnablePlatform(token, onoff)

Spec == Init /\ [][Next]_vars

(***************************************************************************)
(* The Directory after a rebuild.                                          *)
(***************************************************************************)
\* the handler of a response has run to its end
Rebuilt == last.event = "poll" /\ ~last.thrown

\* the records of the response it handled
Docs ==
    LET docs == polls[Len(polls)].json.docs[1]
    IN [i \in 1..Len(docs) |-> docs[i][1]]

ById(d) == MapHas(streams, d._id) /\ MapGet(streams, d._id) = d
ByName(d) == MapHas(streamsByName, d.name) /\ MapGet(streamsByName, d.name) = d

\* C1, as stated: after the rebuild of a handled response every record of the
\* response is found under its id in the by-id mapping and under its name in
\* the by-name mapping, also when records share a name.
C1_ReachableByIdAndName ==
    Rebuilt => \A i \in DOMAIN Docs : ById(Docs[i]) /\ ByName(Docs[i])

\* C1, amended: after the rebuild every record of the response is found under
\* its id, every record's name is a key of the by-name mapping, and the
\* by-name mapping holds, for a name, the last record of the response with
\* that name (so a record whose name no later record shares is found under
\* its name).
C1_LastNameWins ==
    Rebuilt =>
        \A i \in DOMAIN Docs :
            /\ ById(Docs[i])
            /\ MapHas(streamsByName, Docs[i].name)
            /\ (\A k \in DOMAIN Docs : k > i => Docs[k].name # Docs[i].name)
                   => ByName(Docs[i])

\* two records of the handled response share a name; the later one is found
C1_Witness ==
    /\ Rebuilt
    /\ \E i, k \in DOMAIN Docs :
          /\ i < k
          /\ Docs[i].name = Docs[k].name
          /\ Docs[i] # Docs[k]
          /\ ById(Docs[i])
          /\ ByName(Docs[k])

Sorted(list) ==
    \A i \in 1..(Len(list) - 1) : localeCompare(list[i].id, list[i + 1].id) <= 0

\* C2: after the rebuild of a handled response the list of reference strings
\* is sorted by reference string, also when the last record of the response
\* failed to parse after its entries were appended.
C2_DropdownSorted == Rebuilt => Sorted(platformsDropdown)

(***************************************************************************)
(* The resolver and the command handlers.                                  *)
(***************************************************************************)
\* the token of the last command, expanded
Expanded == parseVariablesInString(last.token)

PatchTo(request, path, enabled) ==
    /\ request.method = "PATCH"
    /\ request.url = S_live_streams \o <<"/">> \o path
    /\ request.body = Some(enabled)

\* C3: a stream token whose expansion is a known stream id resolves to that
\* id unchanged, also when another stream has that string as its name.
C3_IdBeforeName ==
    last.event = "actionEnableStream" /\ MapHas(streams, Expanded)
        => last.options[1].stream = Some(Expanded)

\* the expansion is the id of one stream and the name of another
C3_Witness ==
    /\ last.event = "actionEnableStream"
    /\ MapHas(streams, Expanded)
    /\ MapHas(streamsByName, Expanded)
    /\ MapGet(streamsByName, Expanded)._id # Expanded
    /\ last.options[1].stream = Some(Expanded)

\* the resolved entries of the platforms of a stream, in the order of its list
EntriesOf(stream) ==
    [j \in 1..Len(stream.platforms[1]) |->
        [id |-> stream.platforms[1][j][1]._id,
         enabled |-> stream.platforms[1][j][1].enabled]]

\* C4: the compound token '{name} :: *ALL*' of a known stream name resolves
\* to the id of that stream and to one {id, enabled} entry per platform of
\* the stream, in the order of the stream's platform list.
C4_AllPlatformsInOrder ==
    \A i \in 1..Len(streamsByName) :
        /\ last.event = "actionEnablePlatform"
        /\ Expanded = streamsByName[i].key \o Separator \o AllMarker
        => /\ last.options[1].stream = Some(streamsByName[i].value._id)
           /\ last.options[1].platforms = Some(EntriesOf(streamsByName[i].value))

\* the wildcard token of a stream with two platforms of different names
C4_Witness ==
    /\ last.event = "actionEnablePlatform"
    /\ \E i \in 1..Len(streamsByName) :
          /\ Expanded = streamsByName[i].key \o Separator \o AllMarker
          /\ Len(last.options[1].platforms[1]) = 2
          /\ last.options[1].platforms[1][1] # last.options[1].platforms[1][2]
          /\ streamsByName[i].value.platforms[1][1][1].name
                 # streamsByName[i].value.platforms[1][2][1].name

\* the token of the last command names a stream of the Directory
Known == MapHas(streams, Expanded) \/ MapHas(streamsByName, Expanded)

KnownId ==
    IF MapHas(streams, Expanded) THEN Expanded ELSE MapGet(streamsByName, Expanded)._id

\* C5: actionEnableStream on a token that resolves to a known stream id sends
\* exactly one PATCH to live_streams/{id} with {enabled: t}: t is true for
\* ON, false for OFF, and for TOGGLE the negation of the flag the Directory
\* holds for the stream.
C5_StreamPatch ==
    last.event = "actionEnableStream" /\ Known
        => /\ Len(last.sent) = 1
           /\ PatchTo(last.sent[1], KnownId,
                      CASE last.onoff = "enable" -> TRUE
                        [] last.onoff = "disable" -> FALSE
                        [] OTHER -> MapGet(streams, KnownId).enabled = JBool(FALSE))

\* a toggle of a stream the Directory holds as disabled sends {enabled: true}
C5_Witness ==
    /\ last.event = "actionEnableStream"
    /\ last.onoff = "toggle"
    /\ Known
    /\ MapGet(streams, KnownId).enabled = JBool(FALSE)
    /\ Len(last.sent) = 1
    /\ last.sent[1].body = Some(TRUE)

\* C6: actionEnableStream with TOGGLE on a token that resolves to no id of
\* the Directory sends no PATCH and logs an error.
C6_NoPatchOnUnknownToggle ==
    /\ last.event = "actionEnableStream"
    /\ last.onoff = "toggle"
    /\ ~MapHas(streams, last.options[1].stream[1])
    => /\ last.sent = <<>>
       /\ "Stream not found, cannot toggle" \in last.log

\* the flag the Directory holds for platform id of the stream
OwnFlag(stream, id) ==
    LET j == CHOOSE j \in 1..Len(stream.platforms[1]) :
                 stream.platforms[1][j][1]._id = id
    IN stream.platforms[1][j][1].enabled

\* C7: actionEnablePlatform sends, for each resolved platform, a PATCH to
\* live_streams/{streamId}/platforms/{platformId} with {enabled: t}: t is
\* true for ON, false for OFF, and for TOGGLE the negation of the flag the
\* Directory holds for that platform, not for its stream.
C7_PlatformPatches ==
    last.event = "actionEnablePlatform" /\ ~last.thrown
        => LET o == last.options[1]
               stream == MapGet(streams, o.stream[1])
           IN /\ Len(last.sent) = Len(o.platforms[1])
              /\ \A j \in 1..Len(last.sent) :
                    PatchTo(last.sent[j],
                            stream._id \o <<"/","p","l","a","t","f","o","r","m","s","/">>
                                \o o.platforms[1][j].id,
                            CASE last.onoff = "enable" -> TRUE
                              [] last.onoff = "disable" -> FALSE
                              [] OTHER ->
                                  OwnFlag(stream, o.platforms[1][j].id) = JBool(FALSE))

\* a toggle of a disabled platform of an enabled stream sends {enabled: true}
C7_Witness ==
    /\ last.event = "actionEnablePlatform"
    /\ last.onoff = "toggle"
    /\ ~last.thrown
    /\ Len(last.sent) = 2
    /\ \E j \in 1..2 :
          LET stream == MapGet(streams, last.options[1].stream[1])
          IN /\ stream.enabled = JBool(TRUE)
             /\ OwnFlag(stream, last.options[1].platforms[1][j].id) = JBool(FALSE)
             /\ last.sent[j].body = Some(TRUE)

\* the part of the expanded compound token before ' :: '
StreamPart == split(Expanded, Separator)[1]

\* C8: when the part before ' :: ' of the expanded platform token is not a
\* known stream name (a known stream id included), the resolution fails and
\* is logged, and actionEnablePlatform sends no PATCH.
C8_UnknownStreamPart ==
    last.event = "actionEnablePlatform" /\ ~MapHas(streamsByName, StreamPart)
        => /\ "platform not found" \in last.log
           /\ last.options[1].platforms = None
           /\ last.sent = <<>>

\* the stream part is the id of a stream and the name of none
C8_Witness ==
    /\ last.event = "actionEnablePlatform"
    /\ ~MapHas(streamsByName, StreamPart)
    /\ MapHas(streams, StreamPart)
    /\ Len(split(Expanded, Separator)) = 2
    /\ "platform not found" \in last.log
    /\ last.sent = <<>>

\* the token of the last command names no stream, ON or OFF
UnresolvedOnOff ==
    /\ last.event = "actionEnableStream"
    /\ last.onoff \in {"enable", "disable"}
    /\ ~Known

\* C9, as stated: when the expanded stream token of actionEnableStream (ON or
\* OFF) is neither a known id nor a known name, the failure is logged and no
\* PATCH with the unresolved identifier is sent.
C9_AbortsUnresolved ==
    UnresolvedOnOff
        => /\ "Stream name not found, passing as-is" \in last.log
           /\ last.sent = <<>>

\* C9, amended: in that case a warning is logged and the expanded token is
\* passed as-is: exactly one PATCH to live_streams/{expanded token} with
\* {enabled: true} for ON and {enabled: false} for OFF.
C9_PassedAsIs ==
    UnresolvedOnOff
        => /\ "Stream name not found, passing as-is" \in last.log
           /\ Len(last.sent) = 1
           /\ PatchTo(last.sent[1], Expanded, last.onoff = "enable")

\* an unknown token with ON, after the poll filled the Directory
C9_Witness ==
    /\ UnresolvedOnOff
    /\ last.onoff = "enable"
    /\ streams # <<>>
    /\ Len(last.sent) = 1
    /\ last.sent[1].body = Some(TRUE)

(***************************************************************************)
(* The publish calls of two polls handled one after the other.             *)
(***************************************************************************)
Views == {"variableDefinitions", "variableValues", "actions", "feedbacks"}

Count(calls_, view) == Cardinality({i \in 1..Len(calls_) : calls_[i] = view})

\* the last two handled responses carry the same stream list
SameTwice == Len(polls) = 2 /\ polls[1].json = polls[2].json

\* C10, as stated: when two polls handled one after the other return the same
\* stream list, the second makes no publish call, and across the two each
\* view is published exactly once.
C10_PublishedExactlyOnce ==
    SameTwice
        => /\ polls[2].published = <<>>
           /\ \A view \in Views :
                 Count(polls[1].published \o polls[2].published, view) = 1

\* C10, amended: the second makes no publish call, and across the two each
\* view is published at most once (by the first, when it found the view
\* changed).
C10_SecondPollSilent ==
    SameTwice
        => /\ polls[2].published = <<>>
           /\ \A view \in Views :
                 Count(polls[1].published \o polls[2].published, view) <= 1

\* the first of the two published every view, the second none
C10_Witness ==
    /\ SameTwice
    /\ polls[1].json.docs # None
    /\ polls[1].json.docs[1] # <<>>
    /\ \A view \in Views : Count(polls[1].published, view) = 1
    /\ polls[2].published = <<>>

(***************************************************************************)
(* End to end.                                                             *)
(***************************************************************************)
\* the Directory is the one rebuilt from the account of 'A' and 'B'
EndToEndDirectory == polls # <<>> /\ polls[Len(polls)].json = EndToEndAccount

Key_stream_s1_enabled ==
    <<"s","t","r","e","a","m","_","s","1","_","e","n","a","b","l","e","d">>
Key_stream_B_platform_yt_enabled ==
    <<"s","t","r","e","a","m","_","B","_","p","l","a","t","f","o","r","m","_",
      "y","t","_","e","n","a","b","l","e","d">>

\* C11: after a handled poll of the account of 'A' (s1, disabled) and 'B'
\* (s2, enabled, platform 'yt' p1 enabled) the published variable values
\* hold stream_s1_enabled = false and stream_B_platform_yt_enabled = true;
\* then enable-stream('A', ON) sends PATCH live_streams/s1 {enabled:true} and
\* enable-platform('B :: yt', TOGGLE) sends PATCH live_streams/s2/platforms/p1
\* {enabled:false}.
C11_EndToEnd ==
    EndToEndDirectory =>
        /\ variableValuesCache # None
        /\ Key_stream_s1_enabled \in DOMAIN variableValuesCache[1]
        /\ variableValuesCache[1][Key_stream_s1_enabled] = JBool(FALSE)
        /\ Key_stream_B_platform_yt_enabled \in DOMAIN variableValuesCache[1]
        /\ variableValuesCache[1][Key_stream_B_platform_yt_enabled] = JBool(TRUE)
        /\ (/\ last.event = "actionEnableStream"
            /\ last.token = <<"A">>
            /\ last.onoff = "enable")
           => /\ Len(last.sent) = 1
              /\ PatchTo(last.sent[1], <<"s", "1">>, TRUE)
        /\ (/\ last.event = "actionEnablePlatform"
            /\ last.token = <<"B", " ", ":", ":", " ", "y", "t">>
            /\ last.onoff = "toggle")
           => /\ Len(last.sent) = 1
              /\ PatchTo(last.sent[1],
                         <<"s","2","/","p","l","a","t","f","o","r","m","s","/","p","1">>,
                         FALSE)

\* the toggle of 'B :: yt' after the poll, with the variables published
C11_Witness ==
    /\ EndToEndDirectory
    /\ variableValuesCache # None
    /\ last.event = "actionEnablePlatform"
    /\ last.token = <<"B", " ", ":", ":", " ", "y", "t">>
    /\ last.onoff = "toggle"
    /\ Len(last.sent) = 1
    /\ last.sent[1].body = Some(FALSE)

(***************************************************************************)
(* C12                                                                     *)
(***************************************************************************)
\* C12: a GET of the stream collection that fails, by a network error or by a
\* non-success status, leaves the by-id mapping, the by-name mapping, the
\* platform table, the reference list and every cache of a derived view as
\* they were before the response was handled.
C12_FailedPollKeepsSnapshot ==
    [][last'.event = "poll failed" => UNCHANGED <<directory, caches>>]_vars

\* a poll failed by a network error while the Directory and the caches held
\* the snapshot of an earlier poll
C12_Witness ==
    /\ last.event = "poll failed"
    /\ last.answer = Answer("pollAPI", "error", 0)
    /\ streams # <<>>
    /\ platformsDropdown # <<>>
    /\ variableValuesCache # None
    /\ actionsCache # None

(***************************************************************************)
(* C13                                                                     *)
(***************************************************************************)
\* every request sent has been answered and the answer handled
Quiescent == inflight = <<>>

\* the Directory is the one a poll of the service would build now
Converged ==
    \E run \in {Rebuild(remote)} :
        /\ streams = run.streams
        /\ streamsByName = run.streamsByName
        /\ platforms = run.platforms

\* C13 as stated: once a mutation has succeeded and its re-poll and every
\* other poll in flight have completed, the Directory holds the enabled flags
\* of the service, whatever the order in which the polls were handled.
C13_ConvergesForEveryInterleaving ==
    (Quiescent /\ observed.applied >= 1) => Converged

\* C13: once a mutation has succeeded and every request has completed, a
\* response the service produced after the last mutation has been handled
\* (the re-poll was started and completed), and the Directory holds the
\* enabled flags of the service when that response was the last one handled:
\* the Directory reflects the response that lands last.
C13_ConvergesOnLastResponse ==
    (Quiescent /\ observed.applied >= 1) =>
        /\ observed.seen = observed.applied
        /\ (observed.handled = observed.applied => Converged)

\* a mutation changed the service, a timer is armed, and the response
\* produced after the mutation was the last one handled
C13_Witness ==
    /\ Quiescent
    /\ observed.applied >= 1
    /\ observed.handled = observed.applied
    /\ remote # FanOutAccount
    /\ timers # {}
    /\ last.event = "poll"

(***************************************************************************)
(* C14                                                                     *)
(***************************************************************************)
\* the requests of `q` with this method
Of(q, method) == SelectSeq(q, LAMBDA request : request.method = method)

\* the PATCHes of `q` this handler sent
PatchesOf(q, caller) ==
    SelectSeq(q, LAMBDA request : request.method = "PATCH" /\ request.caller = caller)

\* this step is the settling of a PATCH of the handler
Settles(caller) == Len(PatchesOf(inflight', caller)) < Len(PatchesOf(inflight, caller))

\* C14: when the PATCH of actionEnableStream succeeds, exactly one poll is
\* started and it is still in flight when the handler is done; when the PATCH
\* fails, no poll is started, no other PATCH is sent, the failure is logged,
\* and the Directory and the caches of the derived views are unchanged.
C14_StreamPatchSettled ==
    [][Settles("actionEnableStream") =>
          /\ Len(Of(inflight', "PATCH")) = Len(Of(inflight, "PATCH")) - 1
          /\ UNCHANGED <<directory, caches>>
          /\ IF last'.answer = Answer("actionEnableStream", "ok", 200)
             THEN /\ Len(Of(inflight', "GET")) = Len(Of(inflight, "GET")) + 1
                  /\ inflight'[Len(inflight')] = GetStreams
             ELSE /\ Of(inflight', "GET") = Of(inflight, "GET")
                  /\ "failed to enable stream" \in last'.log]_vars

\* the PATCH of enable-stream 'A' succeeded while the Directory held the
\* snapshot of a poll, and its re-poll is in flight
C14_Witness ==
    /\ last.event = "patched"
    /\ last.answer = Answer("actionEnableStream", "ok", 200)
    /\ streams # <<>>
    /\ Of(inflight, "GET") = <<GetStreams>>
    /\ Of(inflight, "PATCH") = <<>>

\* the PATCH of enable-stream failed while the Directory held a snapshot
C14_WitnessFailure ==
    /\ last.event = "patch failed"
    /\ last.answer # None
    /\ last.answer[1].caller = "actionEnableStream"
    /\ streams # <<>>
    /\ inflight = <<>>

(***************************************************************************)
(* C15                                                                     *)
(***************************************************************************)
\* this step is a call of the handler that resolved its platforms
Fans(caller) ==
    /\ calls'.commands = calls.commands + 1
    /\ last'.event = caller
    /\ ~last'.thrown

\* C15: actionEnablePlatform with N resolved platforms puts exactly N PATCHes
\* in flight before any of them is answered; the settling of one of them
\* leaves its siblings in flight whatever its outcome, starts exactly one
\* poll when it succeeded, and starts none and logs the failure when it
\* failed.
C15_FanOut ==
    [][/\ Fans("actionEnablePlatform") =>
             /\ Len(last'.sent) = Len(last'.options[1].platforms[1])
             /\ inflight' = inflight \o last'.sent
             /\ \A j \in 1..Len(last'.sent) :
                    /\ last'.sent[j].method = "PATCH"
                    /\ last'.sent[j].response = None
       /\ Settles("actionEnablePlatform") =>
             /\ Len(PatchesOf(inflight', "actionEnablePlatform"))
                    = Len(PatchesOf(inflight, "actionEnablePlatform")) - 1
             /\ Len(Of(inflight', "PATCH")) = Len(Of(inflight, "PATCH")) - 1
             /\ IF last'.answer = Answer("actionEnablePlatform", "ok", 200)
                THEN /\ Len(Of(inflight', "GET")) = Len(Of(inflight, "GET")) + 1
                     /\ inflight'[Len(inflight')] = GetStreams
                ELSE /\ Of(inflight', "GET") = Of(inflight, "GET")
                     /\ "failed to enable platform" \in last'.log]_vars

\* of the two PATCHes of one command the first to settle succeeded and
\* started its re-poll, the second failed
C15_Witness ==
    /\ last.event = "patch failed"
    /\ last.answer # None
    /\ last.answer[1].caller = "actionEnablePlatform"
    /\ observed.applied = 1
    /\ calls.commands = 1
    /\ Of(inflight, "PATCH") = <<>>
    /\ Of(inflight, "GET") # <<>>

(***************************************************************************)
(* C16                                                                     *)
(***************************************************************************)
\* at most one recurring timer is armed, and it is the one the module
\* holds; none is armed when the interval applied last is 0
OneTimer ==
    /\ Cardinality(timers) <= 1
    /\ timers # {} => timers = {pollTimer}
    /\ (config # None /\ config[1].pollInterval = 0) => timers = {}

\* while no timer is armed a poll is started only by init, by configUpdated
\* or by the success of a command
ManualPolls ==
    [][(timers = {} /\ Len(Of(inflight', "GET")) > Len(Of(inflight, "GET")))
          => last'.event \in {"init", "configUpdated", "patched"}]_vars

\* C16: in every state reached by init, configUpdated, timer ticks and
\* destroy at most one recurring poll timer is armed (a reconfiguration
\* cancels the armed timer before it arms a new one), none is armed when the
\* interval applied last is 0, and polls then start only on init, on
\* configUpdated and after a successful command.
C16_TimerDiscipline == []OneTimer /\ ManualPolls

\* a reconfiguration to the interval 0 cancelled the timer that was armed
C16_Witness ==
    /\ last.event = "configUpdated"
    /\ config = Some([pollInterval |-> 0])
    /\ pollTimer # 0
    /\ timers = {}

\* a reconfiguration with a positive interval while a timer was armed
C16_WitnessRearmed ==
    /\ last.event = "configUpdated"
    /\ config = Some([pollInterval |-> 10])
    /\ polls # <<>>
    /\ timers = {pollTimer}

(***************************************************************************)
(* C17                                                                     *)
(***************************************************************************)
\* the handlers that ran last were those of a response with this outcome
Settled(kind) == last.answer # None /\ last.answer[1].kind = kind

\* C17: a call whose response has a non-success status is rejected and does
\* not resolve: the handler of the rejection runs and logs, no handler of a
\* body runs (no poll is started, nothing is published); the connection
\* status recorded is AuthenticationFailure for 401 and UnknownError for
\* every other status, and the failure is logged by the call.
C17_HttpFailureRejects ==
    Settled("http") =>
        /\ last.event \in {"poll failed", "patch failed"}
        /\ last.sent = <<>>
        /\ last.published = <<>>
        /\ \E text \in {"failed to read stream list", "failed to enable stream",
                         "failed to enable platform"} : text \in last.log
        /\ IF last.answer[1].status = 401
           THEN /\ statusCache = "AuthenticationFailure"
                /\ "API Authorization failed" \in last.log
           ELSE /\ statusCache = "UnknownError"
                /\ "API Error" \in last.log
        /\ observed.notified # <<>>
        /\ observed.notified[Len(observed.notified)] = statusCache

\* after a successful poll a GET was answered 401: the status went from Ok
\* to AuthenticationFailure
C17_Witness ==
    /\ last.answer = Answer("pollAPI", "http", 401)
    /\ last.status = <<"AuthenticationFailure">>
    /\ observed.notified = <<"Ok", "AuthenticationFailure">>

\* a PATCH was answered with another non-success status
C17_WitnessGeneric ==
    /\ Settled("http")
    /\ last.answer[1].caller = "actionEnablePlatform"
    /\ last.answer[1].status = 500
    /\ last.status = <<"UnknownError">>

(***************************************************************************)
(* C18                                                                     *)
(***************************************************************************)
\* C18: a call whose request fails in the transport is rejected, the handler
\* of the rejection runs, and the connection status is updated: after the
\* failure it is not Ok.
C18_TransportFailureUpdatesStatus ==
    Settled("error") =>
        /\ last.event \in {"poll failed", "patch failed"}
        /\ statusCache # "Ok"

(***************************************************************************)
(* C19                                                                     *)
(***************************************************************************)
\* C19: the host is notified of a connection status only when it differs
\* from the status of the notification before it, over every sequence of
\* polls and commands, answered or failed; the status notified last by a
\* response is the one recorded.
C19_StatusDeduplicated ==
    /\ Len(observed.notified) = 2 => observed.notified[1] # observed.notified[2]
    /\ last.status # <<>> =>
           /\ observed.notified # <<>>
           /\ observed.notified[Len(observed.notified)] = last.status[1]
           /\ last.event # "init" => statusCache = last.status[1]

\* the second of two successful polls in a row made no notification: the
\* last notifications are those of init and of the first poll
C19_Witness ==
    /\ Len(polls) = 2
    /\ last.event = "poll"
    /\ ~last.thrown
    /\ last.status = <<>>
    /\ statusCache = "Ok"
    /\ observed.notified = <<"Unknown", "Ok">>

(***************************************************************************)
(* C20                                                                     *)
(***************************************************************************)
\* the stream and platform choices of the definitions built from a body
ChoicesOf(json) ==
    LET run == Rebuild(json) IN formFields(run.streams, run.platformsDropdown)

\* the last two polls built Directories with the same choices
SameChoicesTwice ==
    /\ Len(polls) = 2
    /\ ~Rebuild(polls[1].json).thrown
    /\ ~Rebuild(polls[2].json).thrown
    /\ ChoicesOf(polls[1].json) = ChoicesOf(polls[2].json)

\* C20: a view recomputed equal to the one published last is not published
\* again: a reconfiguration that finds the Directory as init found it
\* publishes nothing, and a poll that finds the choices of the poll before
\* it publishes neither the action nor the feedback definitions.
C20_NoRepublishWhenEqual ==
    /\ (last.event = "configUpdated" /\ polls = <<>>) => last.published = <<>>
    /\ (last.event = "poll" /\ SameChoicesTwice) =>
           /\ "actions" \notin {last.published[k] : k \in 1..Len(last.published)}
           /\ "feedbacks" \notin {last.published[k] : k \in 1..Len(last.published)}

(***************************************************************************)
(* C21                                                                     *)
(***************************************************************************)
\* the choices the definitions would hold if computed from the Directory now
CurrentChoices == formFields(streams, platformsDropdown)

\* C21: after every successful poll the action and the feedback definitions
\* published last hold the stream choices and the platform reference choices
\* computed from the Directory and the reference list as they are now.
C21_ViewsFollowDirectory ==
    Rebuilt =>
        /\ actionsCache # None
        /\ actionsCache[1].enableStream = CurrentChoices.stream
        /\ actionsCache[1].enablePlatform = CurrentChoices.platform
        /\ feedbacksCache # None
        /\ feedbacksCache[1].streamEnabled = CurrentChoices.stream
        /\ feedbacksCache[1].platformsEnabled = CurrentChoices.platform

(***************************************************************************)
(* C22                                                                     *)
(***************************************************************************)
\* the try block of pollAPI runs to its end on this record
Parses(d) ==
    /\ d.ingest # None
    /\ d.platforms # None => \A j \in 1..Len(d.platforms[1]) : d.platforms[1][j] # None

\* the body handled last
LastBody == polls[Len(polls)].json

\* the body handled last with the records that fail to parse removed
WithoutFailing ==
    [docs |-> Some(SelectSeq(LastBody.docs[1], LAMBDA d : Parses(d[1])))]

\* C22: when a record of the response fails to parse, the Directory, the
\* reference list and the variable view are those built from the response
\* with that record removed.
C22_FailingRecordSkipped ==
    (Rebuilt /\ \E i \in DOMAIN Docs : ~Parses(Docs[i])) =>
        \E run \in {Rebuild(WithoutFailing)} :
            /\ streams = run.streams
            /\ streamsByName = run.streamsByName
            /\ platforms = run.platforms
            /\ platformsDropdown = run.platformsDropdown
            /\ variableValuesCache = Some(run.variableValues)

(***************************************************************************)
(* C23                                                                     *)
(***************************************************************************)
\* C23: between the handlers, also after a rebuild that an exception ended
\* in the middle of the loop, every record the by-name mapping holds is the
\* record the by-id mapping holds under its id, and the name of every record
\* of the by-id mapping is a key of the by-name mapping.
C23_MappingsConsistent ==
    /\ \A i \in 1..Len(streamsByName) :
          /\ MapHas(streams, streamsByName[i].value._id)
          /\ MapGet(streams, streamsByName[i].value._id) = streamsByName[i].value
    /\ \A i \in 1..Len(streams) : MapHas(streamsByName, streams[i].value.name)

\* the rebuild was ended by a null record after a record that failed to
\* parse had been entered
C23_Witness ==
    /\ last.event = "poll"
    /\ last.thrown
    /\ "failed to parse stream data" \in last.log
    /\ Len(streams) = 1
    /\ Len(LastBody.docs[1]) = 2

(***************************************************************************)
(* C24                                                                     *)
(***************************************************************************)
\* the handler of a poll response made a publish call
PollPublished == last.event = "poll" /\ last.published # <<>>

\* C24: whenever the handler of a poll response makes a publish call, the
\* loop over the response has run to its end: no exception ended it, every
\* record of the response is in the Directory under its id and its name, and
\* the Directory holds nothing else.
C24_PublishAfterRebuild ==
    PollPublished =>
        /\ ~last.thrown
        /\ \A i \in 1..Len(LastBody.docs[1]) :
              /\ LastBody.docs[1][i] # None
              /\ ById(LastBody.docs[1][i][1])
              /\ MapHas(streamsByName, LastBody.docs[1][i][1].name)
        /\ \A i \in 1..Len(streams) :
              \E k \in 1..Len(LastBody.docs[1]) :
                  LastBody.docs[1][k] = Some(streams[i].value)

\* a poll published its views after the poll before it had been ended by a
\* null record and had published nothing
C24_Witness ==
    /\ PollPublished
    /\ Len(polls) = 2
    /\ polls[1].published = <<>>
    /\ \E i \in 1..Len(polls[1].json.docs[1]) : polls[1].json.docs[1][i] = None
    /\ streams # <<>>

(***************************************************************************)
(* C25                                                                     *)
(***************************************************************************)
\* this step is the handling of the successful response of request i
Handles(i) ==
    /\ inflight[i].method = "GET"
    /\ inflight[i].response # None
    /\ inflight' = Remove(inflight, i)
    /\ last'.event = "poll"

\* polls are not serialised: while a timer is armed a tick can start a poll
\* whatever is in flight (up to the bound on the requests in flight)
TickNotExcluded ==
    (timers # {} /\ Len(inflight) < MaxInFlight) => ENABLED TimerFired

\* C25: a poll can be started while another is in flight, and the handling
\* of a successful response leaves the Directory as the rebuild of that
\* response, wherever its request stands in the order of issue: the Directory
\* is the rebuild of the response handled last.
C25_LastHandledWins ==
    /\ []TickNotExcluded
    /\ [][\A i \in 1..Len(inflight) :
            Handles(i) =>
                \E run \in {Rebuild(inflight[i].response[1].json)} :
                    /\ streams' = run.streams
                    /\ streamsByName' = run.streamsByName
                    /\ platforms' = run.platforms
                    /\ platformsDropdown' = run.platformsDropdown]_vars

\* of two polls in flight together the one answered before a mutation was
\* handled after the one answered after it, and the Directory holds its flags
C25_Witness ==
    /\ last.event = "poll"
    /\ observed.handled < observed.seen
    /\ streams = Rebuild(LastBody).streams
    /\ ~Converged

(***************************************************************************)
(* C26                                                                     *)
(***************************************************************************)
\* C26: after destroy the timer starts no poll, and the response of a poll
\* that was in flight is discarded: no handler rebuilds the Directory from
\* it, publishes a view or notifies a status.
C26_ShutdownDiscards ==
    lifecycle = "destroyed" =>
        /\ last.event # "timer"
        /\ last.event # "poll"
        /\ last.published = <<>>
        /\ last.status = <<>>

\* the part of C26 about the timer: after destroy no timer is armed and no
\* tick starts a poll
C26_TimerCancelled ==
    lifecycle = "destroyed" => (timers = {} /\ last.event # "timer")

(***************************************************************************)
(* C27                                                                     *)
(***************************************************************************)
\* a poll has just failed while a timer is armed and the module is running
FailedWhileArmed ==
    last.event = "poll failed" /\ timers # {} /\ lifecycle = "running"

\* C27: a failed poll leaves the timer as it was, and while a timer is armed
\* and the module is running a failed poll is followed by a tick that starts
\* a new poll.
C27_RetryAfterFailure ==
    /\ [][last'.event = "poll failed" => UNCHANGED timing]_vars
    /\ FailedWhileArmed ~> (last.event = "timer")

\* a tick started a poll while the status recorded was that of a failure
C27_Witness ==
    /\ last.event = "timer"
    /\ statusCache \in {"AuthenticationFailure", "UnknownError"}
    /\ timers # {}
    /\ Of(inflight, "GET") # <<>>

(***************************************************************************)
(* C28                                                                     *)
(***************************************************************************)
\* the part of the expanded compound token after the first ' :: '
PlatformPart == split(Expanded, Separator)[2]

\* one {id, enabled} entry per platform of the stream with this name, in the
\* order of the stream's platform list
EntriesNamed(stream, name) ==
    LET named == SelectSeq(stream.platforms[1], LAMBDA p : p[1].name = name)
    IN [j \in 1..Len(named) |-> [id |-> named[j][1]._id, enabled |-> named[j][1].enabled]]

\* the last command was given '{name} :: {platformPart}' with the name of a
\* stream of the Directory and a platform part other than '*ALL*'
NamedPlatformToken ==
    /\ last.event = "actionEnablePlatform"
    /\ Len(split(Expanded, Separator)) >= 2
    /\ MapHas(streamsByName, StreamPart)
    /\ PlatformPart # AllMarker

\* C28: the compound token '{name} :: {platformPart}' of a known stream name,
\* with a platform part other than '*ALL*', resolves to the id of the stream
\* and to one entry per platform of the stream whose name is the platform
\* part, in the order of the platform list: two platforms of that name give
\* two entries, none gives the empty list.
C28_NamedPlatforms ==
    NamedPlatformToken =>
        /\ last.options[1].stream = Some(MapGet(streamsByName, StreamPart)._id)
        /\ last.options[1].platforms =
               Some(EntriesNamed(MapGet(streamsByName, StreamPart), PlatformPart))

\* the stream has two platforms of the name asked for: two entries
C28_Witness ==
    /\ NamedPlatformToken
    /\ Len(last.options[1].platforms[1]) = 2
    /\ last.options[1].platforms[1][1].id # last.options[1].platforms[1][2].id

\* the stream has a platform, none of the name asked for: the empty list
C28_WitnessNoMatch ==
    /\ NamedPlatformToken
    /\ MapGet(streamsByName, StreamPart).platforms[1] # <<>>
    /\ last.options[1].platforms = Some(<<>>)
    /\ last.sent = <<>>

(***************************************************************************)
(* C29                                                                     *)
(***************************************************************************)
\* the keys the handler builds for one record, before they are sanitized
RawKeys(d) ==
    {K_stream \o d._id \o x :
        x \in {K_name, K_enabled, K_status, K_ingest_server, K_ingest_key}}
    \cup {K_stream \o d.name \o x :
        x \in {K_id, K_enabled, K_status, K_ingest_server, K_ingest_key}}
    \cup (IF d.platforms = None THEN {}
          ELSE {K_stream \o d.name \o K_platform \o d.platforms[1][j][1].name \o x :
                   j \in {k \in DOMAIN d.platforms[1] : d.platforms[1][k] # None},
                   x \in {K_status, K_enabled}})

\* key is raw with every character outside [A-Za-z0-9_-] replaced by '_'
SanitizedFrom(key, raw) ==
    /\ Len(key) = Len(raw)
    /\ \A n \in DOMAIN raw : key[n] = (IF raw[n] \in SafeChars THEN raw[n] ELSE "_")

\* C29: every key of the published variable values is the sanitized form of
\* a raw key the handler built from a record of the response: characters
\* outside [A-Za-z0-9_-] are replaced by '_', the others are kept, and so no
\* published key holds a character outside that set.
C29_KeysSanitized ==
    Rebuilt =>
        /\ variableValuesCache # None
        /\ \A key \in DOMAIN variableValuesCache[1] :
               /\ \A n \in DOMAIN key : key[n] \in SafeChars
               /\ \E i \in DOMAIN Docs : \E raw \in RawKeys(Docs[i]) :
                      SanitizedFrom(key, raw)

\* a published key whose raw key holds two characters outside the set (the
\* blank of the stream name and the blank of the platform name)
C29_Witness ==
    /\ Rebuilt
    /\ variableValuesCache # None
    /\ \E key \in DOMAIN variableValuesCache[1] :
           \E i \in DOMAIN Docs : \E raw \in RawKeys(Docs[i]) :
               /\ SanitizedFrom(key, raw)
               /\ Cardinality({n \in DOMAIN raw : raw[n] \notin SafeChars}) = 2

(***************************************************************************)
(* C30                                                                     *)
(***************************************************************************)
\* C30: after the rebuild of a handled response the published value under
\* stream_{id}_enabled is, for every record of the response, the enabled
\* flag of that record (false when it has none), whatever the names and ids
\* of the other records.
C30_EnabledById ==
    Rebuilt =>
        /\ variableValuesCache # None
        /\ \A i \in DOMAIN Docs :
               LET key == Sanitize(K_stream \o Docs[i]._id \o K_enabled)
               IN /\ key \in DOMAIN variableValuesCache[1]
                  /\ variableValuesCache[1][key] = OrElse(Docs[i].enabled, JBool(FALSE))

(***************************************************************************)
(* C31                                                                     *)
(***************************************************************************)
\* the keys of the definitions and of the values published last
DefinedKeys ==
    IF variableDefinitionsCache = None THEN {}
    ELSE {variableDefinitionsCache[1][n].variableId :
             n \in DOMAIN variableDefinitionsCache[1]}

ValuedKeys ==
    IF variableValuesCache = None THEN {} ELSE DOMAIN variableValuesCache[1]

\* C31: in every reachable state the variable definitions published last and
\* the variable values published last have the same keys: a key has a value
\* if and only if it has a definition, although each of the two is cached
\* and republished on its own.
C31_SameKeys ==
    /\ (variableDefinitionsCache = None) = (variableValuesCache = None)
    /\ DefinedKeys = ValuedKeys

\* a poll republished the definitions and left the values alone
C31_Witness ==
    /\ Rebuilt
    /\ last.published = <<"variableDefinitions">>
    /\ ValuedKeys # {}

(***************************************************************************)
(* C32                                                                     *)
(***************************************************************************)
\* the TOGGLE requests for stream s1 that await their response, oldest first
TogglesInFlight ==
    SelectSeq(inflight, LAMBDA q : q.caller = "actionEnableStream"
                                   /\ q.url = StreamUrl(StreamId(1)))

\* C32: two TOGGLE invocations of actionEnableStream for the same stream
\* with no successfully completed poll between them send PATCH requests
\* with the same enabled value.  (Under SpecToggle no poll completes
\* between two requests that are in flight together.)
C32_TogglesAgree ==
    \A j, k \in 1..Len(TogglesInFlight) :
        TogglesInFlight[j].body = TogglesInFlight[k].body

(***************************************************************************)
(* C33                                                                     *)
(***************************************************************************)
\* the records of a response that precede its first null record; none when
\* the response has no document list
StoredBefore(json) ==
    IF json.docs = None THEN <<>>
    ELSE LET docs == json.docs[1]
             n == Cardinality({i \in DOMAIN docs : \A k \in 1..i : docs[k] # None})
         IN [i \in 1..n |-> docs[i][1]]

\* the handler of a success-status response threw outside the per-record
\* guard
HandlerThrew == last.event = "poll" /\ last.thrown

\* C33: when the handler of a success-status poll response throws outside
\* the per-record guard (no document list, or a null record), the Directory
\* is not left as it was: it holds the records stored before the exception
\* and no other (none when the list is missing); no view is published, the
\* view caches are unchanged and the status is not set to Ok.
C33_ThrowLeavesPartialDirectory ==
    [][HandlerThrew' /\ polls' # polls =>
          LET stored == StoredBefore(polls'[Len(polls')].json)
          IN /\ Len(streams') = Len(stored)
             /\ Len(streamsByName') = Len(stored)
             /\ \A i \in DOMAIN stored :
                    /\ MapHas(streams', stored[i]._id)
                    /\ MapGet(streams', stored[i]._id) = stored[i]
                    /\ MapHas(streamsByName', stored[i].name)
                    /\ MapGet(streamsByName', stored[i].name) = stored[i]
             /\ stored = <<>> => platforms' = EmptyObject /\ platformsDropdown' = <<>>
             /\ last'.published = <<>>
             /\ last'.status = <<>>
             /\ UNCHANGED <<caches, statusCache>>]_vars

\* a response with a null record after the record of s1 was handled when
\* the Directory held two streams: it holds one, and the views still show
\* the other
C33_Witness ==
    /\ HandlerThrew
    /\ Len(polls) = 2
    /\ polls[1].json = FanOutAccount
    /\ Len(streams) = 1
    /\ MapHas(streams, StreamId(1))
    /\ variableValuesCache # None
    /\ Sanitize(K_stream \o StreamId(2) \o K_enabled) \in DOMAIN variableValuesCache[1]

\* a response without document list was handled when the Directory held two
\* streams: it is empty
C33_WitnessNoList ==
    /\ HandlerThrew
    /\ Len(polls) = 2
    /\ polls[1].json = FanOutAccount
    /\ polls[2].json.docs = None
    /\ streams = <<>>
    /\ variableValuesCache # None

(***************************************************************************)
(* C34                                                                     *)
(***************************************************************************)
\* the platforms of the stream named by the stream part of the token that
\* the token matches: all of them for '*ALL*', else those of that name
MatchedByToken ==
    LET parts == split(Expanded, Separator)
        list == MapGet(streamsByName, StreamPart).platforms
    IN IF list = None \/ Len(parts) < 2 THEN {}
       ELSE {list[1][j][1] :
                j \in {k \in DOMAIN list[1] :
                          /\ list[1][k] # None
                          /\ parts[2] = AllMarker \/ list[1][k][1].name = parts[2]}}

QueryShouldHold ==
    /\ DOMAIN platforms # {}
    /\ MapHas(streamsByName, StreamPart)
    /\ \A platform \in MatchedByToken : Truthy(platform.enabled)

\* C34: the platformsEnabled query returns true exactly when the Directory
\* holds at least one platform, the stream part of the expanded token is a
\* known stream name and every platform the token matches is enabled in the
\* Directory (so also when it matches none), and returns false otherwise:
\* whenever the resolution fails or the Directory has no platform.
C34_PlatformsEnabledQuery ==
    last.event = "platformsEnabled" =>
        /\ ~last.thrown
        /\ last.answer = Answer("platformsEnabled",
                                IF QueryShouldHold THEN "true" ELSE "false", 0)

====
